---- MODULE Spec2Model ----
(***************************************************************************)
(* Word & Character Counter (src/src/App.tsx): the webpage-fetch fallback  *)
(* chain, the PDF extractor with its OCR fallback, and the app state they  *)
(* update.                                                                 *)
(*                                                                         *)
(* Strings are sequences of lexemes.  A lexeme is a piece of text that the *)
(* code never looks inside: one whitespace character, a run of letters, a  *)
(* tag opener such as "<div", the ">" closing a tag.  The length of a      *)
(* string is the sum of the character lengths of its lexemes, and          *)
(* String.includes is a search for a contiguous run of lexemes; the sample *)
(* strings are cut so that every substring the code searches for is a run  *)
(* of whole lexemes.                                                       *)
(***************************************************************************)
EXTENDS Integers, Sequences, FiniteSets, TLC

(***************************************************************************)
(* Bounds of the model.                                                    *)
(***************************************************************************)
\* largest number of pages of a sample PDF
MaxPages == 2

\* largest number of lexemes of a text given to the counter directly
MaxTextLen == 4

\* largest number of words of a text given to the analyzer directly
MaxWords == 4

\* null (results, fileName, error messages): the empty sequence; a value
\* that is present is never the empty sequence
NULL == <<>>

(***************************************************************************)
(* String primitives (JavaScript String methods used by App.tsx).          *)
(***************************************************************************)
Whitespace == {" ", "\n", "\t"}

IsWs(lex) == lex \in Whitespace

RECURSIVE StrLen(_)
StrLen(s) == IF s = <<>> THEN 0 ELSE Len(Head(s)) + StrLen(Tail(s))

RECURSIVE Rep(_, _)
Rep(lex, n) == IF n <= 0 THEN <<>> ELSE <<lex>> \o Rep(lex, n - 1)

\* n letters, cut into words of ten letters and single letters
Fill(n) == Rep("aaaaaaaaaa", n \div 10) \o Rep("a", n % 10)

RECURSIVE TrimStart(_)
TrimStart(s) ==
  IF s = <<>> THEN <<>>
  ELSE IF IsWs(Head(s)) THEN TrimStart(Tail(s)) ELSE s

RECURSIVE TrimEnd(_)
TrimEnd(s) ==
  IF s = <<>> THEN <<>>
  ELSE IF IsWs(s[Len(s)]) THEN TrimEnd(SubSeq(s, 1, Len(s) - 1)) ELSE s

Trim(s) == TrimEnd(TrimStart(s))

Includes(s, pat) ==
  \E i \in 1..(Len(s) - Len(pat) + 1) : SubSeq(s, i, i + Len(pat) - 1) = pat

\* s.replace(/\s/g, ' '): every whitespace character on its own
RECURSIVE CollapseWsEach(_)
CollapseWsEach(s) ==
  IF s = <<>> THEN <<>>
  ELSE <<IF IsWs(Head(s)) THEN " " ELSE Head(s)>> \o CollapseWsEach(Tail(s))

\* s.replace(/\s+/g, ' ')
RECURSIVE CollapseWs(_)
CollapseWs(s) ==
  IF s = <<>> THEN <<>>
  ELSE IF IsWs(Head(s))
       THEN <<" ">> \o CollapseWs(TrimStart(s))
       ELSE <<Head(s)>> \o CollapseWs(Tail(s))

\* index of the "\n" that ends a match of /\n\s*\n/ starting at s[1] = "\n",
\* 0 when there is none (\s* is greedy: the last "\n" of the whitespace run)
RECURSIVE LastNewlineOfRun(_, _, _)
LastNewlineOfRun(s, i, best) ==
  IF i > Len(s) \/ ~IsWs(s[i]) THEN best
  ELSE LastNewlineOfRun(s, i + 1, IF s[i] = "\n" THEN i ELSE best)

\* s.replace(/\n\s*\n/g, '\n')
RECURSIVE CollapseBlankLines(_)
CollapseBlankLines(s) ==
  IF s = <<>> THEN <<>>
  ELSE IF Head(s) = "\n" /\ LastNewlineOfRun(s, 2, 0) > 0
       THEN <<"\n">> \o CollapseBlankLines(SubSeq(s, LastNewlineOfRun(s, 2, 0) + 1, Len(s)))
       ELSE <<Head(s)>> \o CollapseBlankLines(Tail(s))

\* the clean-up of the extracted text (App.tsx 622-626):
\* .replace(/\s+/g, ' ').replace(/\n\s*\n/g, '\n').trim()
CleanUp(s) == Trim(CollapseBlankLines(CollapseWs(s)))

\* s.replace(/ /g, ''): the space alone
RECURSIVE RemoveSpaces(_)
RemoveSpaces(s) ==
  IF s = <<>> THEN <<>>
  ELSE IF Head(s) = " " THEN RemoveSpaces(Tail(s))
       ELSE <<Head(s)>> \o RemoveSpaces(Tail(s))

\* s.replace(/\s/g, '')
RECURSIVE RemoveWs(_)
RemoveWs(s) ==
  IF s = <<>> THEN <<>>
  ELSE IF IsWs(Head(s)) THEN RemoveWs(Tail(s)) ELSE <<Head(s)>> \o RemoveWs(Tail(s))

\* number of tokens of s.trim().split(/\s/): one more than the whitespace
\* characters
RECURSIVE CountPieces(_, _)
CountPieces(s, inWord) ==
  IF s = <<>> THEN 1
  ELSE (IF IsWs(Head(s)) THEN 1 ELSE 0) + CountPieces(Tail(s), FALSE)

\* number of tokens of s.trim().split(/\s+/).filter(w => w.length > 0)
RECURSIVE CountRuns(_, _)
CountRuns(s, inWord) ==
  IF s = <<>> THEN 0
  ELSE IF IsWs(Head(s)) THEN CountRuns(Tail(s), FALSE)
       ELSE (IF inWord THEN 0 ELSE 1) + CountRuns(Tail(s), TRUE)

(***************************************************************************)
(* analyzeRepeatedWords (App.tsx 59-111).  In the text it is given every   *)
(* lexeme is one whitespace character, or made of word characters only     *)
(* ([A-Za-z0-9_]), or made only of characters that /[^\w\s]/ matches.      *)
(***************************************************************************)
stopWords ==
  {"the", "and", "or", "but", "in", "on", "at", "to", "for", "of", "with", "by",
   "is", "are", "was", "were", "be", "been", "have", "has", "had", "do", "does",
   "did", "will", "would", "could", "should", "may", "might", "must", "can", "a",
   "an", "this", "that", "these", "those", "i", "you", "he", "she", "it", "we",
   "they", "me", "him", "her", "us", "them", "my", "your", "his", "its", "our",
   "their", "myself", "yourself", "himself", "herself", "itself", "ourselves",
   "yourselves", "themselves", "what", "which", "who", "when", "where", "why",
   "how", "all", "any", "both", "each", "few", "more", "most", "other", "some",
   "such", "no", "nor", "not", "only", "own", "same", "so", "than", "too", "very"}

\* the lexemes with a capital letter, and what toLowerCase makes of them
Capitals == {"The", "Cat", "Hello", "T"}

toLowerCase(lex) ==
  CASE lex = "The" -> "the"
    [] lex = "Cat" -> "cat"
    [] lex = "Hello" -> "hello"
    [] lex = "T" -> "t"
    [] OTHER -> lex

\* the lexemes that /[^\w\s]/g deletes: punctuation, and letters outside ASCII
NonWord == {",", "!", "'", "#", "-"}

\* the punctuation deleted and the case kept
RECURSIVE NormalizeKeepingCase(_)
NormalizeKeepingCase(s) ==
  IF s = <<>> THEN <<>>
  ELSE IF Head(s) \in NonWord THEN NormalizeKeepingCase(Tail(s))
  ELSE <<Head(s)>> \o NormalizeKeepingCase(Tail(s))

\* text.toLowerCase().replace(/[^\w\s]/g, '')
RECURSIVE Normalize(_)
Normalize(s) ==
  IF s = <<>> THEN <<>>
  ELSE IF Head(s) \in NonWord THEN Normalize(Tail(s))
  ELSE <<toLowerCase(Head(s))>> \o Normalize(Tail(s))

\* s.split(/\s+/): the pieces between the runs of whitespace, the empty
\* pieces before a leading run and after a trailing run included; cur is
\* the piece being read
RECURSIVE SplitWs(_, _)
SplitWs(s, cur) ==
  IF s = <<>> THEN <<cur>>
  ELSE IF IsWs(Head(s)) THEN <<cur>> \o SplitWs(TrimStart(s), "")
  ELSE SplitWs(Tail(s), cur \o Head(s))

LongerThanOne(word) == Len(word) > 1
\* a predicate that keeps every word
AnyWord(word) == TRUE

NotStopWord(word) == word \notin stopWords

\* lines 81-88
FilteredWords(text_, filterStopWords_) ==
  LET words == SelectSeq(SplitWs(Normalize(text_), ""), LongerThanOne)
  IN IF filterStopWords_ THEN SelectSeq(words, NotStopWord) ELSE words

\* the keys of the frequency Map in insertion order: the distinct words in
\* the order of their first occurrence
RECURSIVE MapKeys(_, _)
MapKeys(words, seen) ==
  IF words = <<>> THEN <<>>
  ELSE IF Head(words) \in seen THEN MapKeys(Tail(words), seen)
  ELSE <<Head(words)>> \o MapKeys(Tail(words), seen \cup {Head(words)})

Occurrences(word, words) == Cardinality({i \in 1..Len(words) : words[i] = word})

\* percentage is kept as the fraction count * 100 / totalWords
Entry(word, words) ==
  [word |-> word, count |-> Occurrences(word, words),
   percentage |-> [num |-> Occurrences(word, words) * 100, den |-> Len(words)]]

\* an order that puts an entry before the entries it ties with
RECURSIVE InsertBeforeTies(_, _)
InsertBeforeTies(e, sorted) ==
  IF sorted = <<>> THEN <<e>>
  ELSE IF Head(sorted).count > e.count
       THEN <<Head(sorted)>> \o InsertBeforeTies(e, Tail(sorted))
       ELSE <<e>> \o sorted

\* e put into sorted where the stable sort((a, b) => b.count - a.count)
\* puts an entry that comes after those of sorted: behind every entry whose
\* count is not smaller
RECURSIVE InsertByCount(_, _)
InsertByCount(e, sorted) ==
  IF sorted = <<>> THEN <<e>>
  ELSE IF Head(sorted).count >= e.count
       THEN <<Head(sorted)>> \o InsertByCount(e, Tail(sorted))
       ELSE <<e>> \o sorted

\* Array.prototype.sort with the comparator of line 103
RECURSIVE SortByCount(_, _)
SortByCount(entries, sorted) ==
  IF entries = <<>> THEN sorted
  ELSE SortByCount(Tail(entries), InsertByCount(Head(entries), sorted))

\* the percentages taken over the words counted before the stop words
\* are removed
WordFrequenciesOverTokens(text_, filterStopWords_) ==
  LET words == FilteredWords(text_, filterStopWords_)
      keys == MapKeys(words, {})
      tokens == FilteredWords(text_, FALSE)
  IN SortByCount([i \in 1..Len(keys) |->
                    [Entry(keys[i], words) EXCEPT !.percentage.den = Len(tokens)]],
                 <<>>)

\* lines 90-103
WordFrequencies(text_, filterStopWords_) ==
  LET words == FilteredWords(text_, filterStopWords_)
      keys == MapKeys(words, {})
  IN SortByCount([i \in 1..Len(keys) |-> Entry(keys[i], words)], <<>>)

TopWordsLimit == 15

\* the smaller of two numbers
Min(a, b) == IF a < b THEN a ELSE b

\* totalUniqueWords taken from the entries that are returned
analyzeRepeatedWordsCapped(text_, filterStopWords_) ==
  LET wordFrequencies == WordFrequencies(text_, filterStopWords_)
  IN [topWords |-> SubSeq(wordFrequencies, 1, Min(Len(wordFrequencies), TopWordsLimit)),
      totalUniqueWords |-> Min(Len(wordFrequencies), TopWordsLimit),
      mostRepeatedWord |-> IF wordFrequencies = <<>> THEN NULL
                           ELSE <<wordFrequencies[1]>>,
      stopWordsFiltered |-> filterStopWords_]

\* stopWordsFiltered always the default of the parameter
analyzeRepeatedWordsDefaultFlag(text_, filterStopWords_) ==
  LET wordFrequencies == WordFrequencies(text_, filterStopWords_)
  IN [topWords |-> SubSeq(wordFrequencies, 1, Min(Len(wordFrequencies), TopWordsLimit)),
      totalUniqueWords |-> Len(wordFrequencies),
      mostRepeatedWord |-> IF wordFrequencies = <<>> THEN NULL
                           ELSE <<wordFrequencies[1]>>,
      stopWordsFiltered |-> TRUE]

analyzeRepeatedWords(text_, filterStopWords_) ==
  IF Trim(text_) = <<>>
  THEN [topWords |-> <<>>, totalUniqueWords |-> 0, mostRepeatedWord |-> NULL,
        stopWordsFiltered |-> filterStopWords_]
  ELSE LET wordFrequencies == WordFrequencies(text_, filterStopWords_)
       IN [topWords |-> SubSeq(wordFrequencies, 1,
                               IF Len(wordFrequencies) < TopWordsLimit
                               THEN Len(wordFrequencies) ELSE TopWordsLimit),
           totalUniqueWords |-> Len(wordFrequencies),
           mostRepeatedWord |-> IF wordFrequencies = <<>> THEN NULL
                                ELSE <<wordFrequencies[1]>>,
           stopWordsFiltered |-> filterStopWords_]

(***************************************************************************)
(* countWordsAndCharacters (App.tsx 334-360): the value it passes to       *)
(* setResults.  text_ and filterStopWords_ are the state its closure holds.*)
(***************************************************************************)
\* charCountIncludingSpaces taken from the trimmed text
countWordsAndCharactersTrimmed(textToCount, text_, filterStopWords_) ==
  LET textContent == IF textToCount # <<>> THEN textToCount ELSE text_
  IN IF Trim(textContent) = <<>> THEN NULL
     ELSE <<[wordCount |-> CountRuns(Trim(textContent), FALSE),
             charCountExcludingSpaces |-> StrLen(RemoveWs(textContent)),
             charCountIncludingSpaces |-> StrLen(Trim(textContent)),
             repeatedWordsAnalysis |-> analyzeRepeatedWords(textContent, filterStopWords_)]>>

countWordsAndCharacters(textToCount, text_, filterStopWords_) ==
  LET textContent == IF textToCount # <<>> THEN textToCount ELSE text_
  IN IF Trim(textContent) = <<>> THEN NULL
     ELSE <<[wordCount |-> CountRuns(Trim(textContent), FALSE),
             charCountExcludingSpaces |-> StrLen(RemoveWs(textContent)),
             charCountIncludingSpaces |-> StrLen(textContent),
             repeatedWordsAnalysis |-> analyzeRepeatedWords(textContent, filterStopWords_)]>>

\* useEffect on [text] (App.tsx 705-711): the results after the effect has run
TextEffect(text_, filterStopWords_) ==
  IF Trim(text_) # <<>> THEN countWordsAndCharacters(text_, text_, filterStopWords_)
  ELSE NULL

(***************************************************************************)
(* parseHTML (App.tsx 604-633).  DOMParser is the browser's; it is         *)
(* modelled on the lexemes "<name" ... ">" and "</name" ... ">": the       *)
(* elements of elementsToRemove are dropped with their content, every      *)
(* other tag is dropped and its content kept, which is body.textContent.   *)
(***************************************************************************)
Elements == {"html", "head", "title", "body", "script", "style", "nav", "div", "p"}

elementsToRemove ==
  {"script", "style", "head", "nav", "footer", "header", "aside", "noscript",
   "iframe", "img", "video", "audio", "canvas", "svg", "meta", "link", "title"}

OpenLex(e) == "<" \o e
CloseLex(e) == "</" \o e

OpenLexes == {OpenLex(e) : e \in Elements}
CloseLexes == {CloseLex(e) : e \in Elements}
RemovedOpenLexes == {OpenLex(e) : e \in Elements \cap elementsToRemove}

IsOpenLex(lex) == lex \in OpenLexes
IsCloseLex(lex) == lex \in CloseLexes

\* the rest of s after the ">" that ends the tag begun at Head(s)
RECURSIVE AfterTag(_)
AfterTag(s) ==
  IF s = <<>> THEN <<>>
  ELSE IF Head(s) = ">" THEN Tail(s) ELSE AfterTag(Tail(s))

\* text content of the document once the elements to remove are gone;
\* depth is the number of removed elements that are open
RECURSIVE BodyText(_, _)
BodyText(s, depth) ==
  IF s = <<>> THEN <<>>
  ELSE IF IsOpenLex(Head(s))
       THEN BodyText(AfterTag(s),
                     IF Head(s) \in RemovedOpenLexes \/ depth > 0
                     THEN depth + 1 ELSE depth)
  ELSE IF IsCloseLex(Head(s))
       THEN BodyText(AfterTag(s), IF depth > 0 THEN depth - 1 ELSE depth)
  ELSE (IF depth = 0 THEN <<Head(s)>> ELSE <<>>) \o BodyText(Tail(s), depth)

\* parseFromString(html, 'text/html') always builds a body element, and
\* body is not among the elements removed
HasBody(html) == TRUE

NoBodyMsg == <<"No body content found on the webpage.">>
NoReadableMsg == <<"No readable text content found on the webpage.">>

Returned(t) == [ok |-> TRUE, text |-> t, msg |-> <<>>]
Thrown(m) == [ok |-> FALSE, text |-> <<>>, msg |-> m]

parseHTML(html) ==
  LET text == CleanUp(BodyText(html, 0))
  IN IF ~HasBody(html) THEN Thrown(NoBodyMsg)
     ELSE IF text = <<>> THEN Thrown(NoReadableMsg)
     ELSE Returned(text)

(***************************************************************************)
(* parseHTML of test-fetch-apple.js (39-73), which has no DOM: the         *)
(* elements are cut out by regular expressions, one kind after another,    *)
(* every tag that is left becomes a space, and the text is cleaned up the  *)
(* same way.                                                               *)
(***************************************************************************)
\* the kinds cut out, in the order of lines 43-59: with their content, or
\* (img, meta, link) the tag alone
CutKinds ==
  <<"script", "style", "head", "nav", "footer", "header", "aside", "noscript",
    "iframe", "img", "video", "audio", "canvas", "svg", "meta", "link", "title">>
VoidKinds == {"img", "meta", "link"}

\* index of the first ">" of s at or after i, 0 when there is none
RECURSIVE TagEnd(_, _)
TagEnd(s, i) ==
  IF i > Len(s) THEN 0 ELSE IF s[i] = ">" THEN i ELSE TagEnd(s, i + 1)

\* index of the ">" of the first "</e>" of s at or after i, 0 when there is
\* none ([\s\S]*? takes as little as it can)
RECURSIVE CloseEnd(_, _, _)
CloseEnd(s, e, i) ==
  IF i >= Len(s) THEN 0
  ELSE IF s[i] = CloseLex(e) /\ s[i + 1] = ">" THEN i + 1
  ELSE CloseEnd(s, e, i + 1)

\* where the match of /<e[^>]*>[\s\S]*?<\/e>/ that starts at s[1] ends, 0
\* when there is none
PairedMatch(s, e) ==
  IF s # <<>> /\ Head(s) = OpenLex(e) /\ TagEnd(s, 2) > 0
  THEN CloseEnd(s, e, TagEnd(s, 2) + 1) ELSE 0

\* s.replace(/<e[^>]*>[\s\S]*?<\/e>/gi, '')
RECURSIVE CutPaired(_, _)
CutPaired(s, e) ==
  IF s = <<>> THEN <<>>
  ELSE IF PairedMatch(s, e) > 0
       THEN CutPaired(SubSeq(s, PairedMatch(s, e) + 1, Len(s)), e)
       ELSE <<Head(s)>> \o CutPaired(Tail(s), e)

\* s.replace(/<e[^>]*>/gi, '')
RECURSIVE CutVoid(_, _)
CutVoid(s, e) ==
  IF s = <<>> THEN <<>>
  ELSE IF Head(s) = OpenLex(e) /\ TagEnd(s, 2) > 0
       THEN CutVoid(SubSeq(s, TagEnd(s, 2) + 1, Len(s)), e)
       ELSE <<Head(s)>> \o CutVoid(Tail(s), e)

\* the replacements of lines 43-59 from the k-th on
RECURSIVE CutAll(_, _)
CutAll(s, k) ==
  IF k > Len(CutKinds) THEN s
  ELSE CutAll(IF CutKinds[k] \in VoidKinds THEN CutVoid(s, CutKinds[k])
              ELSE CutPaired(s, CutKinds[k]),
              k + 1)

\* s.replace(/<[^>]*>/g, ' '): a tag that is never closed stays
RECURSIVE TagsToSpaces(_)
TagsToSpaces(s) ==
  IF s = <<>> THEN <<>>
  ELSE IF (IsOpenLex(Head(s)) \/ IsCloseLex(Head(s))) /\ TagEnd(s, 2) > 0
       THEN <<" ">> \o TagsToSpaces(SubSeq(s, TagEnd(s, 2) + 1, Len(s)))
       ELSE <<Head(s)>> \o TagsToSpaces(Tail(s))

parseHTMLByRegex(html) ==
  LET cleanHTML == CutAll(html, 1)
      text == CleanUp(TagsToSpaces(cleanHTML))
  IN IF text = <<>> THEN Thrown(NoReadableMsg) ELSE Returned(text)

(***************************************************************************)
(* Response envelopes: response.json(), JSON.parse and the JSONP match of  *)
(* App.tsx 409, 511 and 522-524, on the raw text of a response.            *)
(***************************************************************************)
JsonOpen(field) == "{\"" \o field \o "\":\""
JsonOpenStatus(code) == "{\"status\":{\"http_code\":" \o code \o "},\"contents\":\""
JsonClose == "\"}"

JsonFields == {"content", "contents", "body"}
HttpCodes == {"200", "403", "404", "500"}

JsonOpeners == {JsonOpen(f) : f \in JsonFields}
JsonStatusOpeners == {JsonOpenStatus(c) : c \in HttpCodes}

JsonObj(field, s) == <<JsonOpen(field)>> \o s \o <<JsonClose>>
JsonStatusObj(code, s) == <<JsonOpenStatus(code)>> \o s \o <<JsonClose>>

NoFields == [f \in JsonFields |-> <<>>]

\* [ok: the text is JSON, isNull: it is the JSON null, fields, http_code]
JsonParse(raw) ==
  IF raw = <<"null">>
  THEN [ok |-> TRUE, isNull |-> TRUE, fields |-> NoFields, http_code |-> ""]
  ELSE IF raw = <<"{}">>
  THEN [ok |-> TRUE, isNull |-> FALSE, fields |-> NoFields, http_code |-> ""]
  ELSE IF Len(raw) >= 2 /\ raw[Len(raw)] = JsonClose
          /\ raw[1] \in JsonOpeners
  THEN [ok |-> TRUE, isNull |-> FALSE,
        fields |-> [f \in JsonFields |->
                      IF raw[1] = JsonOpen(f) THEN SubSeq(raw, 2, Len(raw) - 1) ELSE <<>>],
        http_code |-> ""]
  ELSE IF Len(raw) >= 2 /\ raw[Len(raw)] = JsonClose
          /\ raw[1] \in JsonStatusOpeners
  THEN [ok |-> TRUE, isNull |-> FALSE,
        fields |-> [f \in JsonFields |->
                      IF f = "contents" THEN SubSeq(raw, 2, Len(raw) - 1) ELSE <<>>],
        http_code |-> CHOOSE c \in HttpCodes : raw[1] = JsonOpenStatus(c)]
  ELSE [ok |-> FALSE, isNull |-> FALSE, fields |-> NoFields, http_code |-> ""]

\* text.match(/callback\((.*)\)/): the leftmost "callback(", then the
\* longest run without a line break that ends in ")"; <<0, 0>> when no match
JsonpMatch(text_) ==
  LET starts == {i \in 1..Len(text_) :
                   /\ text_[i] = "callback("
                   /\ \E j \in (i + 1)..Len(text_) :
                        /\ text_[j] = ")"
                        /\ \A k \in (i + 1)..(j - 1) : text_[k] # "\n"}
  IN IF starts = {} THEN <<0, 0>>
     ELSE LET i == CHOOSE a \in starts : \A b \in starts : a <= b
              ends == {j \in (i + 1)..Len(text_) :
                         /\ text_[j] = ")"
                         /\ \A k \in (i + 1)..(j - 1) : text_[k] # "\n"}
          IN <<i, CHOOSE a \in ends : \A b \in ends : a >= b>>

(***************************************************************************)
(* URLs.  new URL(url) (App.tsx 643) strips leading and trailing spaces    *)
(* and needs a scheme, and a host after the "//" of an http(s) URL.        *)
(***************************************************************************)
Schemes == {"https:", "http:"}

\* a parser that accepts any non-blank text
UrlParsesAnything(u) == Trim(u) # <<>>

UrlParses(u) ==
  LET t == Trim(u)
  IN Len(t) >= 3 /\ t[1] \in Schemes /\ t[2] = "//" /\ ~IsWs(t[3])

\* encodeURIComponent, lexeme by lexeme
EncodeLex(lex) ==
  CASE lex = "https:" -> "https%3A"
    [] lex = "http:" -> "http%3A"
    [] lex = "//" -> "%2F%2F"
    [] lex = " " -> "%20"
    [] OTHER -> lex

encodeURIComponent(u) == [i \in 1..Len(u) |-> EncodeLex(u[i])]

\* the proxy URLs built for one call (App.tsx 422-435)
proxyServices(u) ==
  << <<"https://", "thingproxy.freeboard.io", "/fetch/">> \o u,
     <<"https://api.", "codetabs.com", "/v1/proxy?quest=">> \o encodeURIComponent(u),
     <<"https://", "proxy6.ga", "/?url=">> \o encodeURIComponent(u),
     <<"https://api.", "allorigins.win", "/get?", "url=">> \o encodeURIComponent(u),
     <<"https://", "jsonp.afeld.me", "/?url=">> \o encodeURIComponent(u),
     <<"https://", "cors-anywhere.herokuapp.com", "/">> \o u,
     <<"https://api.", "codetabs.com", "/v1/proxy?quest=">> \o encodeURIComponent(u)
        \o <<"&apikey=test">>,
     <<"https://", "thingproxy.freeboard.io", "/fetch/">> \o u \o <<"?bypass-cache=true">>,
     <<"https://api.", "allorigins.win", "/raw?", "url=">> \o encodeURIComponent(u),
     <<"https://", "corsproxy.io", "/?">> \o encodeURIComponent(u) >>

(***************************************************************************)
(* Error messages, cut at the substrings the outer catch searches for.     *)
(***************************************************************************)
AllFailedMsg ==
  <<"All proxy services failed", " to ", "fetch",
    " the webpage. This might be due to: (blocking, outage, authentication, connectivity) ",
    "Alternatives:", " Copy and paste the text manually / Use the file upload option">>
NetworkMsg == <<"Network request failed. Please check your internet connection and try again, or use the file upload option instead.">>
CorsMsg == <<"Website access blocked by security restrictions.">>
NotFoundMsg == <<"The webpage could not be found (", "404", " error).">>
ForbiddenMsg == <<"Access to this webpage is forbidden.">>
ServerErrorMsg == <<"The website server returned an error (", "500", ").">>
TimeoutMsg == <<"Request timed out.">>
UnableMsg(m) == <<"Unable to ", "fetch", " webpage: ">> \o m

\* the outer catch of extractTextFromWebpage (App.tsx 563-601), for an Error
MapError(m) ==
  IF Includes(m, <<"fetch">>) \/ Includes(m, <<"Failed to ", "fetch">>) THEN NetworkMsg
  ELSE IF Includes(m, <<"CORS">>) \/ Includes(m, <<"cors">>) THEN CorsMsg
  ELSE IF Includes(m, <<"404">>) THEN NotFoundMsg
  ELSE IF Includes(m, <<"403">>) THEN ForbiddenMsg
  ELSE IF Includes(m, <<"500">>) THEN ServerErrorMsg
  ELSE IF Includes(m, <<"aborted">>) \/ Includes(m, <<"timeout">>) THEN TimeoutMsg
  ELSE IF Includes(m, <<"All proxy services failed">>) \/ Includes(m, <<"alternatives:">>) THEN m
  ELSE UnableMsg(m)

(***************************************************************************)
(* What one transport does with the response it awaited.  The outcome is   *)
(* [ret: the call returns text, text, html: the HTML handed to parseHTML,  *)
(*  cause: why the transport failed].                                      *)
(***************************************************************************)
Advance(cause) == [ret |-> FALSE, text |-> <<>>, html |-> <<>>, cause |-> cause]

\* return parseHTML(html) inside the transport's own try block: what
\* parseHTML throws is caught by that block's catch
ReduceIn(html) ==
  LET p == parseHTML(html)
  IN IF p.ok THEN [ret |-> TRUE, text |-> p.text, html |-> html, cause |-> "none"]
     ELSE [ret |-> FALSE, text |-> <<>>, html |-> html, cause |-> "empty"]

ok(resp) == resp.kind = "http" /\ resp.status = "200"

FetchFailure(resp) == IF resp.kind = "abort" THEN "timeout" ELSE "network"

\* App.tsx 399-419
RelayOutcome(resp) ==
  IF resp.kind # "http" THEN Advance(FetchFailure(resp))
  ELSE IF ~ok(resp) THEN Advance(resp.status)
  ELSE LET data == JsonParse(resp.body)
       IN IF ~data.ok \/ data.isNull THEN Advance("malformed")
          ELSE IF data.fields["content"] # <<>> THEN ReduceIn(data.fields["content"])
          ELSE Advance("nocontent")

\* data.content of a relay response that is ok and parses, else nothing
RelayContent(resp) ==
  IF ok(resp) /\ JsonParse(resp.body).ok /\ ~JsonParse(resp.body).isNull
  THEN JsonParse(resp.body).fields["content"] ELSE <<>>

\* App.tsx 456-480
DirectOutcome(resp) ==
  IF resp.kind # "http" THEN Advance(FetchFailure(resp))
  ELSE IF ~ok(resp) THEN Advance(resp.status)
  ELSE ReduceIn(resp.body)

\* App.tsx 505-535: [thrown, html]
Unwrap(proxyUrl, body) ==
  IF Includes(proxyUrl, <<"allorigins.win">>)
  THEN IF Includes(proxyUrl, <<"/raw?">>)
       THEN [thrown |-> FALSE, html |-> body]
       ELSE LET data == JsonParse(body)
            IN IF ~data.ok \/ data.isNull THEN [thrown |-> TRUE, html |-> <<>>]
               ELSE IF data.http_code # "" /\ data.http_code # "200"
                    THEN [thrown |-> TRUE, html |-> <<>>]
               ELSE [thrown |-> FALSE, html |-> data.fields["contents"]]
  ELSE IF Includes(proxyUrl, <<"codetabs.com">>)
  THEN [thrown |-> FALSE, html |-> body]
  ELSE IF Includes(proxyUrl, <<"jsonp.afeld.me">>)
  THEN LET m == JsonpMatch(body)
       IN IF m[1] = 0 THEN [thrown |-> FALSE, html |-> body]
          ELSE LET data == JsonParse(SubSeq(body, m[1] + 1, m[2] - 1))
               IN IF ~data.ok \/ data.isNull THEN [thrown |-> TRUE, html |-> <<>>]
                  ELSE IF data.fields["contents"] # <<>>
                       THEN [thrown |-> FALSE, html |-> data.fields["contents"]]
                  ELSE IF data.fields["body"] # <<>>
                       THEN [thrown |-> FALSE, html |-> data.fields["body"]]
                  ELSE [thrown |-> FALSE, html |-> body]
  ELSE [thrown |-> FALSE, html |-> body]

MinHtmlLen == 50

\* the length test without trim()
LooksLikeHtmlUntrimmed(html) ==
  /\ ~(html = <<>> \/ StrLen(html) < MinHtmlLen)
  /\ ~(~Includes(html, <<"<html">>) /\ ~Includes(html, <<"<body">>)
       /\ ~Includes(html, <<"<div">>))

\* App.tsx 537-545: the checks that let a proxy's content through
LooksLikeHtml(html) ==
  /\ ~(html = <<>> \/ StrLen(Trim(html)) < MinHtmlLen)
  /\ ~(~Includes(html, <<"<html">>) /\ ~Includes(html, <<"<body">>)
       /\ ~Includes(html, <<"<div">>))

\* App.tsx 484-557, one turn of the loop
ProxyOutcome(proxyUrl, resp) ==
  IF resp.kind # "http" THEN Advance(FetchFailure(resp))
  ELSE IF ~ok(resp) THEN Advance(resp.status)
  ELSE LET u == Unwrap(proxyUrl, resp.body)
       IN IF u.thrown THEN Advance("malformed")
          ELSE IF ~LooksLikeHtml(u.html)
               THEN [ret |-> FALSE, text |-> <<>>, html |-> u.html, cause |-> "rejected"]
          ELSE ReduceIn(u.html)

(***************************************************************************)
(* Sample inputs.                                                          *)
(***************************************************************************)
GoodPage ==
  <<"<html", ">", "<head", ">", "<title", ">", "T", "</title", ">", "</head", ">",
    "<body", ">", "<script", ">", "x", "</script", ">",
    "<p", ">", "Hello", " ", " ", "world", "</p", ">", "</body", ">", "</html", ">">>

\* a page of at least MinHtmlLen characters whose only content is a script
EmptyPage ==
  <<"<html", ">", "<body", ">", "<script", ">">> \o Fill(MinHtmlLen)
    \o <<"</script", ">", "</body", ">", "</html", ">">>

ShortDiv == <<"<div", ">", "hi", "</div", ">">>

\* "<div>aa...a</div>" of n characters, with spaces around it
PaddedDiv(n) ==
  <<" ", "<div", ">">> \o Fill(n - 11) \o <<"</div", ">", " ", " ">>

PlainLong == Fill(MinHtmlLen)

Jsonp(s) == <<"callback(">> \o s \o <<")">>

\* what the relay, the page itself and a proxy may answer with status 200
RelayBodies ==
  { GoodPage, JsonObj("content", GoodPage), JsonObj("content", EmptyPage),
    JsonObj("contents", GoodPage), <<"{}">>, <<"null">> }

DirectBodies == { <<>>, ShortDiv, GoodPage, EmptyPage }

ProxyBodies ==
  { <<>>, ShortDiv, GoodPage, EmptyPage, PlainLong,
    PaddedDiv(MinHtmlLen - 1), PaddedDiv(MinHtmlLen),
    JsonObj("contents", GoodPage), JsonStatusObj("404", GoodPage),
    Jsonp(JsonObj("contents", GoodPage)), Jsonp(<<"oops">>) }

Http(bodies) ==
  {[kind |-> "http", status |-> "200", body |-> b] : b \in bodies}
    \cup {[kind |-> "http", status |-> c, body |-> <<>>] : c \in {"403", "404", "500"}}

\* fetch rejects on a network error; fetchWithTimeout also rejects when its
\* timer aborts the request (the relay fetch has no timer)
NetworkError == [kind |-> "neterr", status |-> "", body |-> <<>>]
Aborted == [kind |-> "abort", status |-> "", body |-> <<>>]

RelayResponses == Http(RelayBodies) \cup {NetworkError}
DirectResponses == Http(DirectBodies) \cup {NetworkError, Aborted}
ProxyResponses == Http(ProxyBodies) \cup {NetworkError, Aborted}

UrlSamples ==
  { <<>>, <<" ">>, <<"example.com">>, <<" ", "https:", "//", "example.com">> }

TextSamples == { <<>>, <<"a", " ", " ", "b", "\n", "c">> }


(***************************************************************************)
(* Files.  A PDF is the sequence of its pages; a page gives the items of   *)
(* its text layer (or getTextContent rejects), renders or not, and is      *)
(* recognized as some text (or recognize rejects).                         *)
(***************************************************************************)
MinPdfTextLen == 50

Page(items, layerThrows, renderThrows, ocrThrows, ocr) ==
  [items |-> items, layerThrows |-> layerThrows, renderThrows |-> renderThrows,
   ocrThrows |-> ocrThrows, ocr |-> ocr]

\* a page of text: the text layer alone reaches MinPdfTextLen
LongPage == Page(<<Fill(MinPdfTextLen)>>, FALSE, FALSE, FALSE, <<"long">>)
\* two items that make half of MinPdfTextLen together with the joining space
HalfPage == Page(<<Fill(12), Fill(12)>>, FALSE, FALSE, FALSE, <<" ", "half", "\n">>)
\* a scanned page: no text layer, recognizable
ScanPage == Page(<<>>, FALSE, FALSE, FALSE, <<"scanned", " ", "text", "\n">>)
\* a page with neither text layer nor recognizable text
BlankPage == Page(<<>>, FALSE, FALSE, FALSE, <<" ", "\n">>)
\* a page whose text layer cannot be read
BadLayerPage == Page(<<>>, TRUE, FALSE, FALSE, <<"ocr">>)
\* pages that cannot be rendered or recognized
BadRenderPage == Page(<<>>, FALSE, TRUE, FALSE, <<>>)
\* (its thin text layer and HalfPage's make MinPdfTextLen - 1 characters)
BadOcrPage == Page(<<Fill(23)>>, FALSE, FALSE, TRUE, <<>>)

PageSamples ==
  {LongPage, HalfPage, ScanPage, BlankPage, BadLayerPage, BadRenderPage, BadOcrPage}

RECURSIVE SeqsUpTo(_, _)
SeqsUpTo(S, n) ==
  IF n = 0 THEN {<<>>}
  ELSE SeqsUpTo(S, n - 1) \cup {Append(q, x) : q \in SeqsUpTo(S, n - 1), x \in S}

PdfMime == "application/pdf"
DocxMime == "application/vnd.openxmlformats-officedocument.wordprocessingml.document"

File(type, name, opens, pages, content) ==
  [type |-> type, name |-> name, opens |-> opens, pages |-> pages, content |-> content]

PdfSamples ==
  {File(PdfMime, "a.pdf", TRUE, pp, <<>>) : pp \in SeqsUpTo(PageSamples, MaxPages) \ {<<>>}}
    \cup {File(PdfMime, "broken.pdf", FALSE, <<>>, <<>>)}

OtherSamples ==
  { File(DocxMime, "a.docx", TRUE, <<>>, <<" ", "word", " ", "doc", "\n">>),
    File(DocxMime, "broken.docx", FALSE, <<>>, <<>>),
    File("text/plain", "a.txt", TRUE, <<>>, <<"plain", " ", "text">>),
    File("text/plain", "blank.txt", TRUE, <<>>, <<" ", "\n">>),
    File("", "NOTES.MD", TRUE, <<>>, <<"#", " ", "title">>),
    File("image/png", "a.png", TRUE, <<>>, <<>>),
    File("text/markdown", "readme", TRUE, <<>>, <<"#", " ", "readme">>),
    File("application/x-subrip", "subs", TRUE, <<>>, <<"1", "\n", "subtitle">>),
    File("", "a.srt", TRUE, <<>>, <<"2", "\n", "subtitle">>),
    File("", "amd", TRUE, <<>>, <<"no", " ", "suffix">>),
    File(PdfMime, "notes.md", TRUE, <<LongPage>>, <<>>) }

FileSamples == PdfSamples \cup OtherSamples

\* name.toLowerCase().endsWith(suffix), for the sample names
LowerName(name) == IF name = "NOTES.MD" THEN "notes.md" ELSE name
EndsWith(name, suffix) ==
  \/ suffix = ".md" /\ name \in {"notes.md"}
  \/ suffix = ".srt" /\ name \in {"a.srt"}

\* items.map(item => item.str).join(' ')
RECURSIVE Join(_)
Join(items) ==
  IF items = <<>> THEN <<>>
  ELSE IF Len(items) = 1 THEN Head(items)
  ELSE Head(items) \o <<" ">> \o Join(Tail(items))

RECURSIVE Fact(_)
Fact(n) == IF n <= 1 THEN 1 ELSE n * Fact(n - 1)

\* ocrProgress is held in units of 1/ProgressUnit percent, so that
\* (i - 1) / totalPages * 80 is an integer for every page count
ProgressUnit == Fact(MaxPages)
Percent(v) == v * ProgressUnit
PageProgress(i, totalPages) == ((i - 1) * 80 * ProgressUnit) \div totalPages

\* m.progress * 100 for the fractions the engine reports
EngineReports == {0, 50, 100}

(***************************************************************************)
(* State.                                                                  *)
(***************************************************************************)
VARIABLES
  text, results, fileName, fileError, urlError,   \* useState of App
  url, isUrlLoading, isLoading, isOcrProcessing, ocrProgress, filterStopWords,
  pc,            \* where the extractTextFromWebpage call in progress is suspended
  proxyIdx,      \* i + 1 of the proxy loop
  callUrl,       \* the url argument of the call in progress
  attempts,      \* transports whose fetch this call has issued, in order
  pending,       \* transports whose fetch has not settled
  causes,        \* why the transports of this call failed
  relayContent,  \* the content the relay supplied to this call, if any
  outcome,       \* how the last extractTextFromWebpage call ended
  submitFilter,  \* filterStopWords in the closure of the handleUrlSubmit in progress
  file,          \* the file processFile is working on
  fpc,           \* where processFile and the extractor it awaits are suspended
  pageNo,        \* i of the page loop that is running
  fullText,      \* fullText of extractTextFromPDF
  ocrText,       \* fullText of extractTextWithOCR
  ocrSite,       \* the call site of the OCR run: "try" (217) or "catch" (227)
  ocrCalls,      \* OCR runs started by this extraction
  layer,         \* how the text-layer extraction of this file ended
  engineProgress, \* the progress the recognition engine reported last
  worker,        \* recognition workers created and terminated by this extraction
  fileFilter,    \* filterStopWords in the closure of the processFile in progress
  pageLog,       \* what the page loop that runs (or ran last) has done, in order
  ocrEnd,        \* how the OCR run that ended last ended
  probe,         \* the last direct application of a function, with its value
  relay,         \* the relay endpoint: the request it handles, where it is, its answer
  zone,          \* the DropZone: its state, its disabled prop, and the pointer over it
  last           \* the handler step taken last

vars == <<text, results, fileName, fileError, urlError, url, isUrlLoading, isLoading,
          isOcrProcessing, ocrProgress, filterStopWords,
          pc, proxyIdx, callUrl, attempts, pending, causes, relayContent, outcome,
          submitFilter,
          file, fpc, pageNo, fullText, ocrText, ocrSite, ocrCalls, layer,
          engineProgress, worker, fileFilter, pageLog, ocrEnd, probe, relay, zone, last>>

appVars == <<text, results, fileName, fileError, urlError, url, isUrlLoading, isLoading>>
ocrVars == <<isOcrProcessing, ocrProgress>>
fileVars == <<file, fpc, pageNo, fullText, ocrText, ocrSite, ocrCalls, layer,
              engineProgress, worker, fileFilter, pageLog, ocrEnd>>
callVars == <<pc, proxyIdx, callUrl, attempts, pending, causes, relayContent, outcome,
              submitFilter>>

\* state that only the filter toggle and the direct applications change
others == <<filterStopWords, probe, relay, zone>>

Relay == <<"relay", 0>>
Direct == <<"direct", 0>>
Proxy(i) == <<"proxy", i>>

NumProxies == Len(proxyServices(<<>>))

\* the transports in the order of the source
Chain == <<Relay, Direct>> \o [i \in 1..NumProxies |-> Proxy(i)]

NoOutcome == [status |-> "none", text |-> <<>>, msg |-> <<>>, by |-> <<"none", 0>>, html |-> <<>>]

BlankUrlMsg == <<"Please enter a valid URL.">>
InvalidUrlMsg == <<"Please enter a valid URL (e.g., https://example.com)">>
NoTextMsg == <<"No text content could be extracted from this webpage.">>

NoFile == [type |-> "", name |-> "", opens |-> FALSE, pages |-> <<>>, content |-> <<>>]
NoLayer == [status |-> "none", text |-> <<>>]
NoWorker == [created |-> 0, terminateCalls |-> 0, terminated |-> 0]
NoOcrEnd == [status |-> "none", at |-> "", text |-> <<>>]
NoProbe ==
  [fn |-> "none", textToCount |-> <<>>, filter |-> TRUE, used |-> TRUE, out |-> <<>>]

\* the relay before its first request
NoRequest == [url |-> <<>>, method |-> ""]
NoUpstream == [kind |-> "none", status |-> 0, body |-> <<>>]
NoResponse == [status |-> 0, allowOrigin |-> "", body |-> <<>>]
NoRelay == [pc |-> "idle", req |-> NoRequest, response |-> NoUpstream, res |-> NoResponse]

\* the DropZone as it is mounted: isDragOver, isDragValid and dragCounter
\* are its own (part_002 12-14), disabled is its prop; entered counts the
\* dragenter events of the drag under way that no dragleave has matched,
\* focused and dialog tell whether it has the focus and whether the file
\* browser it opened is still open, did is what its last handler did
NoZone ==
  [disabled |-> FALSE, isDragOver |-> FALSE, isDragValid |-> FALSE, dragCounter |-> 0,
   entered |-> 0, focused |-> FALSE, dialog |-> FALSE, did |-> "none"]

Init ==
  /\ text = <<>> /\ results = NULL /\ fileName = NULL
  /\ fileError = NULL /\ urlError = NULL
  /\ url = <<>> /\ isUrlLoading = FALSE /\ isLoading = FALSE
  /\ pc = "idle" /\ proxyIdx = 0 /\ callUrl = <<>>
  /\ attempts = <<>> /\ pending = {} /\ causes = {} /\ relayContent = <<>>
  /\ outcome = NoOutcome
  /\ isOcrProcessing = FALSE /\ ocrProgress = 0
  /\ file = NoFile /\ fpc = "idle" /\ pageNo = 0
  /\ fullText = <<>> /\ ocrText = <<>> /\ ocrSite = "none" /\ ocrCalls = 0
  /\ layer = NoLayer /\ engineProgress = -1 /\ worker = NoWorker
  /\ filterStopWords = TRUE /\ submitFilter = TRUE /\ fileFilter = TRUE
  /\ pageLog = <<>> /\ ocrEnd = NoOcrEnd /\ probe = NoProbe /\ relay = NoRelay
  /\ zone = NoZone
  /\ last = "init"

(***************************************************************************)
(* User input.                                                             *)
(***************************************************************************)
\* attempts, causes and outcome record the call in progress or the call
\* that ended last; a handler run after the call has ended starts afresh
Forget ==
  IF pc = "idle"
  THEN /\ attempts' = <<>> /\ pending' = {} /\ causes' = {} /\ outcome' = NoOutcome
       /\ callUrl' = <<>> /\ proxyIdx' = 0 /\ relayContent' = <<>>
       /\ submitFilter' = TRUE
       /\ UNCHANGED pc
  ELSE UNCHANGED callVars

\* onChange of the URL input (App.tsx 963-964)
SetUrl(u) ==
  /\ UNCHANGED others
  /\ ~(isUrlLoading \/ isLoading)
  /\ u # url
  /\ url' = u
  /\ last' = "setUrl"
  /\ UNCHANGED ocrVars /\ UNCHANGED fileVars
  /\ UNCHANGED <<text, results, fileName, fileError, urlError, isUrlLoading, isLoading>>
  /\ Forget

\* handleTextChange without the effect on [text]
handleTextChangeUncounted(newText) ==
  /\ UNCHANGED others
  /\ ~(isLoading \/ isUrlLoading)
  /\ newText # text
  /\ text' = newText
  /\ fileName' = NULL
  /\ fileError' = NULL
  /\ urlError' = NULL
  /\ last' = "handleTextChange"
  /\ UNCHANGED ocrVars /\ UNCHANGED fileVars
  /\ UNCHANGED <<results, url, isUrlLoading, isLoading>>
  /\ Forget

\* handleTextChange (App.tsx 362-372), then the effect on [text]
handleTextChange(newText) ==
  /\ UNCHANGED others
  /\ ~(isLoading \/ isUrlLoading)
  /\ newText # text
  /\ text' = newText
  /\ fileName' = NULL
  /\ fileError' = NULL
  /\ urlError' = NULL
  /\ results' = TextEffect(newText, filterStopWords)
  /\ last' = "handleTextChange"
  /\ UNCHANGED ocrVars /\ UNCHANGED fileVars
  /\ UNCHANGED <<url, isUrlLoading, isLoading>>
  /\ Forget

\* clearAll (App.tsx 686-697), then the effect on [text]
clearAll ==
  /\ UNCHANGED others
  /\ ~isLoading
  /\ text' = <<>> /\ results' = NULL /\ fileName' = NULL
  /\ fileError' = NULL /\ urlError' = NULL /\ url' = <<>>
  /\ isOcrProcessing' = FALSE /\ ocrProgress' = 0
  /\ last' = "clearAll"
  /\ UNCHANGED fileVars
  /\ UNCHANGED <<isUrlLoading, isLoading>>
  /\ Forget

(***************************************************************************)
(* handleUrlSubmit (App.tsx 635-684) and the extractTextFromWebpage call   *)
(* it awaits (App.tsx 396-602).  The handler runs up to its first await;   *)
(* each later action is the continuation run when the awaited fetch        *)
(* settles, up to the next await or to the end of the handler.             *)
(***************************************************************************)

\* setText(t) followed by countWordsAndCharacters(t) in a handler whose
\* closure holds closureFilter: the effect on [text] runs, and recounts, only
\* when the text has changed
Counted(t, closureFilter) ==
  IF t # text THEN TextEffect(t, filterStopWords)
  ELSE countWordsAndCharacters(t, text, closureFilter)

\* handleUrlSubmit after extractTextFromWebpage returned t (653-671, 681-683)
SubmitReturned(t) ==
  /\ IF Trim(t) = <<>>
     THEN /\ urlError' = NoTextMsg
          /\ text' = <<>>
          /\ results' = NULL
     ELSE /\ urlError' = urlError
          /\ text' = t
          /\ results' = Counted(t, submitFilter)
  /\ fileName' = NULL
  /\ isUrlLoading' = FALSE
  /\ UNCHANGED <<fileError, url, isLoading>>

\* a catch that keeps the content that was there before the fetch
SubmitThrownKeeping(m) ==
  /\ urlError' = m
  /\ isUrlLoading' = FALSE
  /\ UNCHANGED <<text, results, fileName, fileError, url, isLoading>>

\* handleUrlSubmit after extractTextFromWebpage threw m (673-683)
SubmitThrown(m) ==
  /\ urlError' = m
  /\ text' = <<>>
  /\ results' = NULL
  /\ fileName' = NULL
  /\ isUrlLoading' = FALSE
  /\ UNCHANGED <<fileError, url, isLoading>>

\* the failure kinds that causes tells apart
Kind(cause) ==
  IF cause \in {"network", "timeout", "empty"} THEN cause
  ELSE IF cause \in {"403", "404", "500"} THEN "http"
  ELSE "other"

\* the transport t returned parseHTML's text
Return(t, o) ==
  /\ outcome' = [status |-> "returned", text |-> o.text, msg |-> <<>>,
                 by |-> t, html |-> o.html]
  /\ pc' = "idle"
  /\ attempts' = attempts
  /\ SubmitReturned(o.text)

\* the error thrown in the outer try reaches the outer catch, which rethrows
Throw(m) ==
  /\ outcome' = [status |-> "thrown", text |-> <<>>, msg |-> MapError(m),
                 by |-> <<"none", 0>>, html |-> <<>>]
  /\ pc' = "idle"
  /\ attempts' = attempts
  /\ SubmitThrown(MapError(m))

handleUrlSubmit ==
  /\ UNCHANGED others
  /\ pc = "idle"
  /\ UNCHANGED ocrVars /\ UNCHANGED fileVars
  /\ ~(isUrlLoading \/ isLoading)
  /\ IF Trim(url) = <<>>
     THEN /\ urlError' = BlankUrlMsg
          /\ last' = "handleUrlSubmit:blank"
          /\ UNCHANGED <<text, results, fileName, fileError, url, isUrlLoading, isLoading>>
          /\ Forget
     ELSE IF ~UrlParses(url)
     THEN /\ urlError' = InvalidUrlMsg
          /\ last' = "handleUrlSubmit:invalid"
          /\ UNCHANGED <<text, results, fileName, fileError, url, isUrlLoading, isLoading>>
          /\ Forget
     ELSE /\ isUrlLoading' = TRUE
          /\ urlError' = NULL
          /\ fileError' = NULL
          /\ last' = "handleUrlSubmit:fetch"
          /\ callUrl' = url
          /\ pc' = "relay"
          /\ attempts' = <<Relay>>
          /\ pending' = {Relay}
          /\ causes' = {}
          /\ relayContent' = <<>>
          /\ outcome' = NoOutcome
          /\ proxyIdx' = 0
          /\ submitFilter' = filterStopWords
          /\ UNCHANGED <<text, results, fileName, url, isLoading>>

\* the direct fetch and the first proxy fetch issued together
RelaySettlesRacing(resp) ==
  /\ UNCHANGED others
  /\ pc = "relay"
  /\ LET o == RelayOutcome(resp)
     IN IF o.ret
        THEN /\ Return(Relay, o)
             /\ pending' = pending \ {Relay}
             /\ UNCHANGED <<causes, proxyIdx>>
        ELSE /\ causes' = causes \cup {Kind(o.cause)}
             /\ pc' = "direct"
             /\ attempts' = attempts \o <<Direct, Proxy(1)>>
             /\ pending' = (pending \ {Relay}) \cup {Direct, Proxy(1)}
             /\ UNCHANGED <<outcome, proxyIdx>>
             /\ UNCHANGED appVars
  /\ relayContent' = RelayContent(resp)
  /\ last' = "RelaySettles"
  /\ UNCHANGED ocrVars /\ UNCHANGED fileVars
  /\ UNCHANGED <<callUrl, submitFilter>>

\* the relay fetch settles (App.tsx 401-419); on failure the direct fetch
\* is issued (458)
RelaySettles(resp) ==
  /\ UNCHANGED others
  /\ pc = "relay"
  /\ LET o == RelayOutcome(resp)
     IN IF o.ret
        THEN /\ Return(Relay, o)
             /\ pending' = pending \ {Relay}
             /\ UNCHANGED <<causes, proxyIdx>>
        ELSE /\ causes' = causes \cup {Kind(o.cause)}
             /\ pc' = "direct"
             /\ attempts' = Append(attempts, Direct)
             /\ pending' = (pending \ {Relay}) \cup {Direct}
             /\ UNCHANGED <<outcome, proxyIdx>>
             /\ UNCHANGED appVars
  /\ relayContent' = RelayContent(resp)
  /\ last' = "RelaySettles"
  /\ UNCHANGED ocrVars /\ UNCHANGED fileVars
  /\ UNCHANGED <<callUrl, submitFilter>>

\* the direct fetch without its try/catch: a rejected fetch ends the call
DirectSettlesUncaught(resp) ==
  /\ UNCHANGED others
  /\ pc = "direct"
  /\ LET o == DirectOutcome(resp)
     IN IF o.ret
        THEN /\ Return(Direct, o)
             /\ pending' = pending \ {Direct}
             /\ UNCHANGED <<causes, proxyIdx>>
        ELSE IF resp.kind # "http"
        THEN /\ causes' = causes \cup {Kind(o.cause)}
             /\ Throw(<<"Failed to ", "fetch">>)
             /\ pending' = pending \ {Direct}
             /\ UNCHANGED proxyIdx
        ELSE /\ causes' = causes \cup {Kind(o.cause)}
             /\ pc' = "proxy"
             /\ proxyIdx' = 1
             /\ attempts' = Append(attempts, Proxy(1))
             /\ pending' = (pending \ {Direct}) \cup {Proxy(1)}
             /\ UNCHANGED outcome
             /\ UNCHANGED appVars
  /\ last' = "DirectSettles"
  /\ UNCHANGED ocrVars /\ UNCHANGED fileVars
  /\ UNCHANGED <<callUrl, relayContent, submitFilter>>

\* the direct fetch settles (App.tsx 458-480); on failure the first proxy
\* fetch is issued (483-496)
DirectSettles(resp) ==
  /\ UNCHANGED others
  /\ pc = "direct"
  /\ LET o == DirectOutcome(resp)
     IN IF o.ret
        THEN /\ Return(Direct, o)
             /\ pending' = pending \ {Direct}
             /\ UNCHANGED <<causes, proxyIdx>>
        ELSE /\ causes' = causes \cup {Kind(o.cause)}
             /\ pc' = "proxy"
             /\ proxyIdx' = 1
             /\ attempts' = Append(attempts, Proxy(1))
             /\ pending' = (pending \ {Direct}) \cup {Proxy(1)}
             /\ UNCHANGED outcome
             /\ UNCHANGED appVars
  /\ last' = "DirectSettles"
  /\ UNCHANGED ocrVars /\ UNCHANGED fileVars
  /\ UNCHANGED <<callUrl, relayContent, submitFilter>>

\* the fetch of proxy proxyIdx settles (App.tsx 488-561): return, next
\* proxy, or after the last proxy the throw of line 561
ProxySettles(resp) ==
  /\ UNCHANGED others
  /\ pc = "proxy"
  /\ LET o == ProxyOutcome(proxyServices(callUrl)[proxyIdx], resp)
     IN IF o.ret
        THEN /\ Return(Proxy(proxyIdx), o)
             /\ pending' = pending \ {Proxy(proxyIdx)}
             /\ UNCHANGED <<causes, proxyIdx>>
        ELSE IF proxyIdx = Len(proxyServices(callUrl))
        THEN /\ causes' = causes \cup {Kind(o.cause)}
             /\ Throw(AllFailedMsg)
             /\ pending' = pending \ {Proxy(proxyIdx)}
             /\ UNCHANGED proxyIdx
        ELSE /\ causes' = causes \cup {Kind(o.cause)}
             /\ proxyIdx' = proxyIdx + 1
             /\ attempts' = Append(attempts, Proxy(proxyIdx + 1))
             /\ pending' = (pending \ {Proxy(proxyIdx)}) \cup {Proxy(proxyIdx + 1)}
             /\ UNCHANGED <<pc, outcome>>
             /\ UNCHANGED appVars
  /\ last' = "ProxySettles"
  /\ UNCHANGED ocrVars /\ UNCHANGED fileVars
  /\ UNCHANGED <<callUrl, relayContent, submitFilter>>

(***************************************************************************)
(* processFile (App.tsx 265-324) with the extractors it awaits:            *)
(* extractTextFromPDF (189-233), extractTextWithOCR (136-187),             *)
(* extractTextFromDocx (235-244) and extractTextFromTxt (246-263).         *)
(* Each action runs from one await to the next.                            *)
(***************************************************************************)
InvalidTypeMsg == <<"Please select a valid PDF, DOCX, TXT, MD, or SRT file.">>
NoFileTextMsg == <<"No text could be extracted from this file.">>
PdfFailedMsg == <<"Failed to extract text from PDF. This may be a scanned document.">>
DocxFailedMsg == <<"Failed to extract text from DOCX file.">>
TxtFailedMsg == <<"Failed to read text file.">>

\* a check of the MIME type alone
AcceptedByType(f) ==
  f.type \in {PdfMime, DocxMime, "text/plain", "text/markdown", "application/x-subrip"}

\* the type check of processFile (270-276)
Accepted(f) ==
  ~(/\ f.type # PdfMime
    /\ f.type # DocxMime
    /\ f.type # "text/plain"
    /\ f.type # "text/markdown"
    /\ f.type # "application/x-subrip"
    /\ ~EndsWith(LowerName(f.name), ".md")
    /\ ~EndsWith(LowerName(f.name), ".srt"))

fetchUnchanged == UNCHANGED <<url, isUrlLoading, urlError>> /\ UNCHANGED callVars

\* an extracted text taken as it is, empty or not
FileReturnedUnchecked(t) ==
  /\ text' = t
  /\ results' = Counted(t, fileFilter)
  /\ UNCHANGED <<fileError, fileName>>
  /\ isLoading' = FALSE
  /\ fpc' = "idle"

\* processFile after the extractor returned t (307-317, 321-323)
FileReturned(t) ==
  /\ IF Trim(t) = <<>>
     THEN /\ fileError' = NoFileTextMsg
          /\ text' = <<>>
          /\ results' = NULL
          /\ fileName' = NULL
     ELSE /\ text' = t
          /\ results' = Counted(t, fileFilter)
          /\ UNCHANGED <<fileError, fileName>>
  /\ isLoading' = FALSE
  /\ fpc' = "idle"

\* processFile after the extractor threw m (318-323)
FileThrown(m) ==
  /\ fileError' = m
  /\ fileName' = NULL
  /\ isLoading' = FALSE
  /\ fpc' = "idle"
  /\ UNCHANGED <<text, results>>

\* extractTextWithOCR up to its first await (137-141)
StartOcr(site) ==
  /\ isOcrProcessing' = TRUE
  /\ ocrProgress' = Percent(0)
  /\ ocrSite' = site
  /\ ocrCalls' = ocrCalls + 1
  /\ ocrText' = <<>>
  /\ engineProgress' = -1
  /\ pageLog' = <<>>
  /\ fpc' = "ocr:open"

\* the text-layer extraction threw: the catch of 221-227 starts an OCR run
LayerThrew ==
  /\ layer' = [status |-> "threw", text |-> <<>>]
  /\ StartOcr("catch")
  /\ UNCHANGED <<pageNo, fullText, worker, ocrEnd>>
  /\ UNCHANGED <<text, results, fileName, fileError, isLoading>>

\* handleFilesDrop / processFile up to the first await of the extractor
\* processFile with the clearing of 282-286 moved before the type test
processFileClearingFirst(f) ==
  /\ UNCHANGED others
  /\ fpc = "idle"
  /\ fileName = NULL
  /\ ~(isLoading \/ isOcrProcessing)
  /\ file' = f
  /\ IF ~Accepted(f)
     THEN /\ fileError' = InvalidTypeMsg
          /\ last' = "processFile:rejected"
          /\ text' = <<>>
          /\ results' = NULL
          /\ UNCHANGED <<fileName, isLoading, urlError, fpc>>
     ELSE /\ text' = <<>>
          /\ results' = NULL
          /\ fileError' = NULL
          /\ urlError' = NULL
          /\ isLoading' = TRUE
          /\ fileName' = <<f.name>>
          /\ last' = "processFile"
          /\ fpc' = IF f.type = PdfMime THEN "pdf:open"
                    ELSE IF f.type = DocxMime THEN "docx"
                    ELSE "txt"
  /\ pageNo' = 0 /\ fullText' = <<>> /\ ocrText' = <<>> /\ ocrSite' = "none"
  /\ ocrCalls' = 0 /\ layer' = NoLayer /\ engineProgress' = -1 /\ worker' = NoWorker
  /\ fileFilter' = filterStopWords /\ pageLog' = <<>> /\ ocrEnd' = NoOcrEnd
  /\ UNCHANGED <<url, isUrlLoading>> /\ UNCHANGED callVars
  /\ UNCHANGED ocrVars

processFile(f) ==
  /\ UNCHANGED others
  /\ fpc = "idle"
  /\ fileName = NULL
  /\ ~(isLoading \/ isOcrProcessing)
  /\ file' = f
  /\ IF ~Accepted(f)
     THEN /\ fileError' = InvalidTypeMsg
          /\ last' = "processFile:rejected"
          /\ UNCHANGED <<text, results, fileName, isLoading, urlError, fpc>>
     ELSE /\ text' = <<>>
          /\ results' = NULL
          /\ fileError' = NULL
          /\ urlError' = NULL
          /\ isLoading' = TRUE
          /\ fileName' = <<f.name>>
          /\ last' = "processFile"
          /\ fpc' = IF f.type = PdfMime THEN "pdf:open"
                    ELSE IF f.type = DocxMime THEN "docx"
                    ELSE "txt"
  /\ pageNo' = 0 /\ fullText' = <<>> /\ ocrText' = <<>> /\ ocrSite' = "none"
  /\ ocrCalls' = 0 /\ layer' = NoLayer /\ engineProgress' = -1 /\ worker' = NoWorker
  /\ fileFilter' = filterStopWords /\ pageLog' = <<>> /\ ocrEnd' = NoOcrEnd
  /\ UNCHANGED <<url, isUrlLoading>> /\ UNCHANGED callVars
  /\ UNCHANGED ocrVars

\* the fallback taken only when there is no text at all
NeedsOcrWhenEmpty(extractedText) == extractedText = <<>>

\* the test of line 215
NeedsOcr(extractedText) ==
  extractedText = <<>> \/ StrLen(extractedText) < MinPdfTextLen

\* getDocument of extractTextFromPDF settles (191-199); getPage(1) is called
PdfOpened ==
  /\ UNCHANGED others
  /\ fpc = "pdf:open"
  /\ IF file.opens
     THEN /\ fpc' = "pdf:page"
          /\ pageNo' = 1
          /\ fullText' = <<>>
          /\ pageLog' = << <<"read", 1>> >>
          /\ UNCHANGED <<ocrText, ocrSite, ocrCalls, layer, engineProgress, worker, ocrEnd>>
          /\ UNCHANGED ocrVars
          /\ UNCHANGED <<text, results, fileName, fileError, isLoading>>
     ELSE LayerThrew
  /\ last' = "PdfOpened"
  /\ UNCHANGED <<file, fileFilter>>
  /\ fetchUnchanged

\* getPage and getTextContent of page pageNo settle (204-209); after the
\* last page the length test of 212-220
PdfPageRead ==
  /\ UNCHANGED others
  /\ fpc = "pdf:page"
  /\ LET page == file.pages[pageNo]
         newText == fullText \o Join(page.items) \o <<"\n">>
         extractedText == Trim(newText)
     IN IF page.layerThrows THEN LayerThrew
        ELSE IF pageNo < Len(file.pages)
        THEN /\ fullText' = newText
             /\ pageNo' = pageNo + 1
             /\ pageLog' = Append(pageLog, <<"read", pageNo + 1>>)
             /\ UNCHANGED <<fpc, ocrText, ocrSite, ocrCalls, layer, engineProgress, worker,
                            ocrEnd>>
             /\ UNCHANGED ocrVars
             /\ UNCHANGED <<text, results, fileName, fileError, isLoading>>
        ELSE IF NeedsOcr(extractedText)
        THEN /\ fullText' = newText
             /\ layer' = [status |-> "returned", text |-> extractedText]
             /\ StartOcr("try")
             /\ UNCHANGED <<pageNo, worker, ocrEnd>>
             /\ UNCHANGED <<text, results, fileName, fileError, isLoading>>
        ELSE /\ fullText' = newText
             /\ layer' = [status |-> "returned", text |-> extractedText]
             /\ FileReturned(extractedText)
             /\ UNCHANGED <<pageNo, ocrText, ocrSite, ocrCalls, engineProgress, worker,
                            pageLog, ocrEnd>>
             /\ UNCHANGED ocrVars
  /\ last' = "PdfPageRead"
  /\ UNCHANGED <<file, fileFilter>>
  /\ fetchUnchanged

\* an extractor that falls back on the text-layer text when OCR finds nothing
OcrReturnedOrLayer(t) ==
  /\ ocrEnd' = [status |-> "returned", at |-> "", text |-> t]
  /\ isOcrProcessing' = FALSE
  /\ ocrProgress' = Percent(0)
  /\ FileReturned(IF t = <<>> THEN layer.text ELSE t)
  /\ UNCHANGED <<ocrSite, ocrCalls>>

\* extractTextWithOCR returned t (179, 183-186) to extractTextFromPDF, which
\* returns it to processFile
OcrReturned(t) ==
  /\ ocrEnd' = [status |-> "returned", at |-> "", text |-> t]
  /\ isOcrProcessing' = FALSE
  /\ ocrProgress' = Percent(0)
  /\ FileReturned(t)
  /\ UNCHANGED <<ocrSite, ocrCalls>>

\* extractTextWithOCR without its finally block: a throw leaves the flags
OcrThrewWithoutFinally(at) ==
  /\ ocrEnd' = [status |-> "threw", at |-> at, text |-> <<>>]
  /\ IF ocrSite = "try"
     THEN /\ StartOcr("catch")
          /\ UNCHANGED <<text, results, fileName, fileError, isLoading>>
     ELSE /\ FileThrown(PdfFailedMsg)
          /\ UNCHANGED ocrVars
          /\ UNCHANGED <<ocrSite, ocrCalls, ocrText, engineProgress, pageLog>>

\* extractTextWithOCR threw at the await named by at (180-186).  Thrown by
\* the run of line 217 the error lands in the catch of 221, which starts
\* the run of line 227; thrown by that one it becomes the error of line 230
OcrThrew(at) ==
  /\ ocrEnd' = [status |-> "threw", at |-> at, text |-> <<>>]
  /\ IF ocrSite = "try"
     THEN /\ StartOcr("catch")
          /\ UNCHANGED <<text, results, fileName, fileError, isLoading>>
     ELSE /\ isOcrProcessing' = FALSE
          /\ ocrProgress' = Percent(0)
          /\ FileThrown(PdfFailedMsg)
          /\ UNCHANGED <<ocrSite, ocrCalls, ocrText, engineProgress, pageLog>>

\* getDocument of extractTextWithOCR settles (141-147)
OcrOpened ==
  /\ UNCHANGED others
  /\ fpc = "ocr:open"
  /\ IF file.opens
     THEN /\ fpc' = "ocr:worker"
          /\ UNCHANGED <<ocrText, ocrSite, ocrCalls, engineProgress, pageLog, ocrEnd>>
          /\ UNCHANGED ocrVars
          /\ UNCHANGED <<text, results, fileName, fileError, isLoading>>
     ELSE OcrThrew("open")
  /\ last' = "OcrOpened"
  /\ UNCHANGED <<file, fileFilter, pageNo, fullText, layer, worker>>
  /\ fetchUnchanged

\* createWorker settles (149-155); then the loop up to the rendering of
\* page 1 (157-164)
OcrWorkerCreated(created) ==
  /\ UNCHANGED others
  /\ fpc = "ocr:worker"
  /\ IF created
     THEN /\ worker' = [worker EXCEPT !.created = @ + 1]
          /\ pageNo' = 1
          /\ ocrProgress' = PageProgress(1, Len(file.pages))
          /\ fpc' = "ocr:render"
          /\ pageLog' = << <<"render", 1>> >>
          /\ UNCHANGED <<isOcrProcessing, ocrText, ocrSite, ocrCalls, engineProgress, ocrEnd>>
          /\ UNCHANGED <<text, results, fileName, fileError, isLoading>>
     ELSE /\ OcrThrew("worker")
          /\ UNCHANGED <<worker, pageNo>>
  /\ last' = "OcrWorkerCreated"
  /\ UNCHANGED <<file, fileFilter, fullText, layer>>
  /\ fetchUnchanged

\* the end of one turn of the page loop, log being what the loop has done:
\* the next page's progress and rendering (160-164), or after the last page
\* lines 176-177, where worker.terminate is called
NextOcrPage(log) ==
  IF pageNo < Len(file.pages)
  THEN /\ pageNo' = pageNo + 1
       /\ ocrProgress' = PageProgress(pageNo + 1, Len(file.pages))
       /\ fpc' = "ocr:render"
       /\ pageLog' = Append(log, <<"render", pageNo + 1>>)
       /\ UNCHANGED worker
  ELSE /\ pageNo' = pageNo
       /\ ocrProgress' = Percent(100)
       /\ fpc' = "ocr:terminate"
       /\ pageLog' = log
       /\ worker' = [worker EXCEPT !.terminateCalls = @ + 1]

\* the text of a page put in front of the text of the pages before it
PrependPageText(fullText_, text_) ==
  IF Trim(text_) = <<>> THEN fullText_
  ELSE Trim(text_) \o <<"\n", "\n">> \o fullText_

\* lines 167-169
AppendPageText(fullText_, text_) ==
  IF Trim(text_) = <<>> THEN fullText_
  ELSE fullText_ \o Trim(text_) \o <<"\n", "\n">>

\* a page that cannot be rendered ends the run with the error, as it would
\* without the try of line 161
OcrRenderedLeaking ==
  /\ UNCHANGED others
  /\ fpc = "ocr:render"
  /\ IF file.pages[pageNo].renderThrows
     THEN /\ OcrThrew("render")
          /\ UNCHANGED <<pageNo, worker>>
     ELSE /\ fpc' = "ocr:recognize"
          /\ engineProgress' = -1
          /\ pageLog' = Append(pageLog, <<"recognize", pageNo>>)
          /\ UNCHANGED <<pageNo, worker, ocrEnd, ocrText, ocrSite, ocrCalls>>
          /\ UNCHANGED ocrVars
          /\ UNCHANGED <<text, results, fileName, fileError, isLoading>>
  /\ last' = "OcrRendered"
  /\ UNCHANGED <<file, fileFilter, fullText, layer>>
  /\ fetchUnchanged

\* convertPDFPageToImage settles (164): recognize is called, or the page's
\* catch (170-173) ends the turn
OcrRendered ==
  /\ UNCHANGED others
  /\ fpc = "ocr:render"
  /\ IF file.pages[pageNo].renderThrows
     THEN /\ NextOcrPage(Append(pageLog, <<"failed", pageNo>>))
          /\ UNCHANGED engineProgress
     ELSE /\ fpc' = "ocr:recognize"
          /\ engineProgress' = -1
          /\ pageLog' = Append(pageLog, <<"recognize", pageNo>>)
          /\ UNCHANGED <<pageNo, ocrProgress, worker>>
  /\ last' = "OcrRendered"
  /\ UNCHANGED <<file, fileFilter, fullText, layer, ocrText, ocrSite, ocrCalls,
                 isOcrProcessing, ocrEnd>>
  /\ UNCHANGED <<text, results, fileName, fileError, isLoading>>
  /\ fetchUnchanged

\* the worker's logger reports 'recognizing text' with a larger fraction
\* than before (150-154)
OcrLogger(p) ==
  /\ UNCHANGED others
  /\ fpc = "ocr:recognize"
  /\ p > engineProgress
  /\ engineProgress' = p
  /\ ocrProgress' = Percent(p)
  /\ last' = "OcrLogger"
  /\ UNCHANGED <<file, fileFilter, fpc, pageNo, fullText, layer, worker, ocrText, ocrSite,
                 ocrCalls, isOcrProcessing, pageLog, ocrEnd>>
  /\ UNCHANGED <<text, results, fileName, fileError, isLoading>>
  /\ fetchUnchanged

\* a page that cannot be recognized ends the loop: the pages after it are
\* left out
OcrRecognizedAborting ==
  /\ UNCHANGED others
  /\ fpc = "ocr:recognize"
  /\ LET page == file.pages[pageNo]
     IN IF page.ocrThrows
        THEN /\ ocrText' = ocrText
             /\ pageNo' = pageNo
             /\ ocrProgress' = Percent(100)
             /\ fpc' = "ocr:terminate"
             /\ pageLog' = Append(pageLog, <<"failed", pageNo>>)
             /\ worker' = [worker EXCEPT !.terminateCalls = @ + 1]
        ELSE /\ ocrText' = AppendPageText(ocrText, page.ocr)
             /\ NextOcrPage(Append(pageLog, <<"recognized", pageNo>>))
  /\ last' = "OcrRecognized"
  /\ UNCHANGED <<file, fileFilter, fullText, layer, ocrSite, ocrCalls, isOcrProcessing,
                 engineProgress, ocrEnd>>
  /\ UNCHANGED <<text, results, fileName, fileError, isLoading>>
  /\ fetchUnchanged

\* worker.recognize settles (165-173)
OcrRecognized ==
  /\ UNCHANGED others
  /\ fpc = "ocr:recognize"
  /\ LET page == file.pages[pageNo]
     IN /\ ocrText' = IF page.ocrThrows THEN ocrText
                       ELSE AppendPageText(ocrText, page.ocr)
        /\ NextOcrPage(Append(pageLog,
                              <<IF page.ocrThrows THEN "failed" ELSE "recognized", pageNo>>))
  /\ last' = "OcrRecognized"
  /\ UNCHANGED <<file, fileFilter, fullText, layer, ocrSite, ocrCalls, isOcrProcessing,
                 engineProgress, ocrEnd>>
  /\ UNCHANGED <<text, results, fileName, fileError, isLoading>>
  /\ fetchUnchanged

\* worker.terminate settles (177-186)
OcrTerminated(terminated) ==
  /\ UNCHANGED others
  /\ fpc = "ocr:terminate"
  /\ IF terminated
     THEN /\ worker' = [worker EXCEPT !.terminated = @ + 1]
          /\ OcrReturned(Trim(ocrText))
          /\ UNCHANGED <<ocrText, engineProgress, pageLog>>
     ELSE /\ OcrThrew("terminate")
          /\ UNCHANGED worker
  /\ last' = "OcrTerminated"
  /\ UNCHANGED <<file, fileFilter, pageNo, fullText, layer>>
  /\ fetchUnchanged

\* mammoth.extractRawText settles (237-243)
DocxSettles ==
  /\ UNCHANGED others
  /\ fpc = "docx"
  /\ IF file.opens THEN FileReturned(Trim(file.content)) ELSE FileThrown(DocxFailedMsg)
  /\ last' = "DocxSettles"
  /\ UNCHANGED <<file, fileFilter, pageNo, fullText, ocrText, ocrSite, ocrCalls, layer,
                 engineProgress, worker, pageLog, ocrEnd>>
  /\ UNCHANGED ocrVars
  /\ fetchUnchanged

\* the FileReader fires onload or onerror (250-257)
TxtSettles(loaded) ==
  /\ UNCHANGED others
  /\ fpc = "txt"
  /\ IF loaded THEN FileReturned(Trim(file.content)) ELSE FileThrown(TxtFailedMsg)
  /\ last' = IF loaded THEN "TxtSettles:onload" ELSE "TxtSettles:onerror"
  /\ UNCHANGED <<file, fileFilter, pageNo, fullText, ocrText, ocrSite, ocrCalls, layer,
                 engineProgress, worker, pageLog, ocrEnd>>
  /\ UNCHANGED ocrVars
  /\ fetchUnchanged

\* the "Remove file" button (App.tsx 885-897), then the effect on [text]
removeFile ==
  /\ UNCHANGED others
  /\ fileName # NULL
  /\ fileName' = NULL
  /\ text' = <<>>
  /\ results' = NULL
  /\ fileError' = NULL
  /\ last' = "removeFile"
  /\ UNCHANGED <<urlError, url, isUrlLoading, isLoading>>
  /\ UNCHANGED callVars /\ UNCHANGED ocrVars /\ UNCHANGED fileVars

\* the "Include / Filter Common Words" button (App.tsx 815-827), rendered
\* while there are results: setFilterStopWords alone, nothing is recounted
toggleFilterStopWords ==
  /\ results # NULL
  /\ filterStopWords' = ~filterStopWords
  /\ last' = "toggleFilterStopWords"
  /\ UNCHANGED <<probe, relay, zone>>
  /\ UNCHANGED appVars
  /\ UNCHANGED callVars /\ UNCHANGED ocrVars /\ UNCHANGED fileVars

(***************************************************************************)
(* The relay endpoint /api/fetch-content: handler(req, res) of README.md   *)
(* 116-217.  One invocation runs from one await to the next; req.url is    *)
(* req.query.url, <<>> when the parameter is missing or empty.             *)
(***************************************************************************)
MinRelayLen == 50

\* res.status(status).json(body) after the setHeader calls of 118-120
Respond(status, body) == [status |-> status, allowOrigin |-> "*", body |-> body]

\* the length test without trim()
HtmlProblemUntrimmed(html) ==
  IF html = <<>> \/ StrLen(html) < MinRelayLen
  THEN <<"Received empty or invalid response">>
  ELSE IF ~Includes(html, <<"<html">>) /\ ~Includes(html, <<"<body">>)
          /\ ~Includes(html, <<"<div">>)
  THEN <<"Response does not appear to be HTML content">>
  ELSE <<>>

\* the message of the Error that lines 173-180 throw for html, <<>> when
\* they throw nothing
HtmlProblem(html) ==
  IF html = <<>> \/ StrLen(Trim(html)) < MinRelayLen
  THEN <<"Received empty or invalid response">>
  ELSE IF ~Includes(html, <<"<html">>) /\ ~Includes(html, <<"<body">>)
          /\ ~Includes(html, <<"<div">>)
  THEN <<"Response does not appear to be HTML content">>
  ELSE <<>>

\* the messages of what fetch rejects with, of response.text() rejecting,
\* and of the Error of line 167
FetchFailedMsg == <<"fetch", " failed">>
FetchTimeoutMsg == <<"The operation was aborted due to ", "timeout">>
BodyFailedMsg == <<"terminated">>
HttpErrorMsg(status) == <<"HTTP error! status: ", ToString(status)>>

\* errorMessage of the catch (196-208)
RelayErrorMessage(m) ==
  IF Includes(m, <<"fetch">>) \/ Includes(m, <<"Failed to ", "fetch">>)
  THEN <<"Network request failed. Please check the URL and try again.">>
  ELSE IF Includes(m, <<"timeout">>)
  THEN <<"Request timed out. The website may be slow or unresponsive.">>
  ELSE IF Includes(m, <<"404">>)
  THEN <<"The webpage could not be found (404 error). Please check the URL.">>
  ELSE IF Includes(m, <<"403">>)
  THEN <<"Access to this webpage is forbidden.">>
  ELSE IF Includes(m, <<"500">>)
  THEN <<"The website server returned an error (500). Please try again later.">>
  ELSE m

\* the catch of 192-216 for an Error of message m, at the time now
RelayFails(m, now) ==
  relay' = [relay EXCEPT
              !.pc = "idle",
              !.res = Respond(500, [error |-> RelayErrorMessage(m), originalError |-> m,
                                    url |-> relay.req.url, timestamp |-> now])]

\* a request arrives: the handler up to its first return or await (116-165)
handler(req) ==
  /\ relay.pc = "idle"
  /\ relay' =
       IF req.method = "OPTIONS"
       THEN [pc |-> "idle", req |-> req, response |-> NoUpstream,
             res |-> Respond(200, <<>>)]
       ELSE IF req.method # "GET"
       THEN [pc |-> "idle", req |-> req, response |-> NoUpstream,
             res |-> Respond(405, [error |-> <<"Method not allowed">>])]
       ELSE IF req.url = <<>>
       THEN [pc |-> "idle", req |-> req, response |-> NoUpstream,
             res |-> Respond(400, [error |-> <<"URL parameter is required">>])]
       ELSE IF ~UrlParses(req.url)
       THEN [pc |-> "idle", req |-> req, response |-> NoUpstream,
             res |-> Respond(400, [error |-> <<"Invalid URL format">>])]
       ELSE [pc |-> "fetch", req |-> req, response |-> NoUpstream, res |-> NoResponse]
  /\ last' = "handler"
  /\ UNCHANGED <<filterStopWords, probe, zone>>
  /\ UNCHANGED appVars /\ UNCHANGED callVars /\ UNCHANGED ocrVars /\ UNCHANGED fileVars

\* the fetch of line 150 settles with response (150-168)
UpstreamSettles(response, now) ==
  /\ relay.pc = "fetch"
  /\ IF response.kind # "http"
     THEN RelayFails(IF response.kind = "abort" THEN FetchTimeoutMsg ELSE FetchFailedMsg,
                     now)
     ELSE IF ~(response.status >= 200 /\ response.status <= 299)
     THEN relay' = [relay EXCEPT
                      !.pc = "idle", !.response = response,
                      !.res = Respond(500, [error |-> RelayErrorMessage(HttpErrorMsg(response.status)),
                                            originalError |-> HttpErrorMsg(response.status),
                                            url |-> relay.req.url, timestamp |-> now])]
     ELSE relay' = [relay EXCEPT !.pc = "text", !.response = response]
  /\ last' = "UpstreamSettles"
  /\ UNCHANGED <<filterStopWords, probe, zone>>
  /\ UNCHANGED appVars /\ UNCHANGED callVars /\ UNCHANGED ocrVars /\ UNCHANGED fileVars

\* response.text() settles (170-190): read tells whether the body arrived
BodySettles(read, now) ==
  /\ relay.pc = "text"
  /\ LET html == relay.response.body
     IN IF ~read THEN RelayFails(BodyFailedMsg, now)
        ELSE IF HtmlProblem(html) # <<>> THEN RelayFails(HtmlProblem(html), now)
        ELSE relay' = [relay EXCEPT
                         !.pc = "idle",
                         !.res = Respond(200, [content |-> html, length |-> StrLen(html),
                                               url |-> relay.req.url, timestamp |-> now])]
  /\ last' = IF read THEN "BodySettles:read" ELSE "BodySettles:failed"
  /\ UNCHANGED <<filterStopWords, probe, zone>>
  /\ UNCHANGED appVars /\ UNCHANGED callVars /\ UNCHANGED ocrVars /\ UNCHANGED fileVars

\* the requests, upstream responses and times of day the relay is tried on
Methods == {"GET", "POST", "HEAD", "OPTIONS"}
QueryUrls ==
  { <<>>, <<"example.com">>, <<"https:", "//", "example.com">>, <<"http:", "//", "a.org">> }
UpstreamStatuses == {200, 204, 301, 403, 404, 500, 503}
UpstreamBodies ==
  { <<>>, ShortDiv, GoodPage, PlainLong, PaddedDiv(MinRelayLen - 1), PaddedDiv(MinRelayLen) }
UpstreamResponses ==
  {[kind |-> "http", status |-> c, body |-> b] : c \in UpstreamStatuses, b \in UpstreamBodies}
    \cup {[kind |-> k, status |-> 0, body |-> <<>>] : k \in {"neterr", "abort"}}
Times == {"2024-01-01T00:00:00.000Z", "2024-01-01T00:00:15.000Z"}

NextRelay ==
  \/ \E m \in Methods, u \in QueryUrls : handler([url |-> u, method |-> m])
  \/ \E response \in UpstreamResponses, now \in Times : UpstreamSettles(response, now)
  \/ \E read \in BOOLEAN, now \in Times : BodySettles(read, now)

SpecRelay == Init /\ [][NextRelay]_vars

NextFile ==
  \/ \E f \in FileSamples : processFile(f)
  \/ PdfOpened
  \/ PdfPageRead
  \/ OcrOpened
  \/ \E created \in BOOLEAN : OcrWorkerCreated(created)
  \/ OcrRendered
  \/ \E p \in EngineReports : OcrLogger(p)
  \/ OcrRecognized
  \/ \E terminated \in BOOLEAN : OcrTerminated(terminated)
  \/ DocxSettles
  \/ \E loaded \in BOOLEAN : TxtSettles(loaded)
  \/ removeFile
  \/ \E t \in TextSamples : handleTextChange(t)
  \/ clearAll

SpecFile == Init /\ [][NextFile]_vars

Next ==
  \/ \E u \in UrlSamples : SetUrl(u)
  \/ \E t \in TextSamples : handleTextChange(t)
  \/ clearAll
  \/ handleUrlSubmit
  \/ \E resp \in RelayResponses : RelaySettles(resp)
  \/ \E resp \in DirectResponses : DirectSettles(resp)
  \/ \E resp \in ProxyResponses : ProxySettles(resp)

Spec == Init /\ [][Next]_vars

(***************************************************************************)
(* The whole app: typing, files and webpages together, on fewer samples.   *)
(***************************************************************************)
AppFiles ==
  {f \in OtherSamples : f.name \in {"a.txt", "a.docx", "a.png"}}
    \cup {File(PdfMime, "a.pdf", TRUE, <<ScanPage>>, <<>>)}

\* a response that carries GoodPage, or the network error
AppResponses(responses) ==
  {resp \in responses :
     \/ resp.kind = "neterr"
     \/ resp.kind = "http" /\ resp.status = "200"
          /\ resp.body \in {GoodPage, JsonObj("content", GoodPage)}}

NextApp ==
  \/ \E u \in UrlSamples : SetUrl(u)
  \/ \E t \in TextSamples : handleTextChange(t)
  \/ clearAll
  \/ toggleFilterStopWords
  \/ handleUrlSubmit
  \/ \E resp \in AppResponses(RelayResponses) : RelaySettles(resp)
  \/ \E resp \in AppResponses(DirectResponses) : DirectSettles(resp)
  \/ \E resp \in AppResponses(ProxyResponses) : ProxySettles(resp)
  \/ \E f \in AppFiles : processFile(f)
  \/ PdfOpened
  \/ PdfPageRead
  \/ OcrOpened
  \/ \E created \in BOOLEAN : OcrWorkerCreated(created)
  \/ OcrRendered
  \/ \E p \in EngineReports : OcrLogger(p)
  \/ OcrRecognized
  \/ \E terminated \in BOOLEAN : OcrTerminated(terminated)
  \/ DocxSettles
  \/ \E loaded \in BOOLEAN : TxtSettles(loaded)
  \/ removeFile

SpecApp == Init /\ [][NextApp]_vars

\* the continuations of the fetch in progress and of the file in progress:
\* the awaited call settles and the handler runs on
FetchSettles ==
  \/ \E resp \in AppResponses(RelayResponses) : RelaySettles(resp)
  \/ \E resp \in AppResponses(DirectResponses) : DirectSettles(resp)
  \/ \E resp \in AppResponses(ProxyResponses) : ProxySettles(resp)

FileSettles ==
  \/ PdfOpened
  \/ PdfPageRead
  \/ OcrOpened
  \/ \E created \in BOOLEAN : OcrWorkerCreated(created)
  \/ OcrRendered
  \/ OcrRecognized
  \/ \E terminated \in BOOLEAN : OcrTerminated(terminated)
  \/ DocxSettles
  \/ \E loaded \in BOOLEAN : TxtSettles(loaded)

\* the await at which each handler in progress is suspended
fetchPosition == <<pc, proxyIdx>>
filePosition == <<fpc, pageNo, ocrSite>>

FetchPositions == {"idle", "relay", "direct", "proxy"}
FilePositions ==
  {"idle", "pdf:open", "pdf:page", "docx", "txt", "ocr:open", "ocr:worker",
   "ocr:render", "ocr:recognize", "ocr:terminate"}

\* a handler in progress leaves the await it is suspended at
FetchMoves ==
  /\ pc # "idle"
  /\ pc' \in FetchPositions
  /\ proxyIdx' \in 0..NumProxies

FileMoves ==
  /\ fpc # "idle"
  /\ fpc' \in FilePositions
  /\ pageNo' \in 0..(MaxPages + 1)
  /\ ocrSite' \in {"none", "try", "catch"}

\* every continuation takes its handler to another await or to its end, and
\* nothing else moves a handler in progress
SettlingMoves ==
  /\ [][FetchSettles <=> (pc # "idle" /\ fetchPosition' # fetchPosition)]_vars
  /\ [][FileSettles <=> (fpc # "idle" /\ filePosition' # filePosition)]_vars

\* the app without typing and without the filter toggle, which touch no
\* flag
NextFlags ==
  \/ \E u \in UrlSamples : SetUrl(u)
  \/ clearAll
  \/ handleUrlSubmit
  \/ FetchSettles
  \/ \E f \in AppFiles : processFile(f)
  \/ FileSettles
  \/ \E p \in EngineReports : OcrLogger(p)
  \/ removeFile

\* every awaited call settles: no handler stays suspended at one await
\* forever.  The fairness is that of FetchSettles and of FileSettles, which
\* are the steps that move a handler in progress (SettlingMoves)
SpecFlags ==
  /\ Init /\ [][NextFlags]_vars
  /\ WF_fetchPosition(FetchMoves)
  /\ WF_filePosition(FileMoves)

(***************************************************************************)
(* The counter and the analyzer applied directly to a text, in whatever    *)
(* state typing and the filter toggle have put the app.                    *)
(***************************************************************************)
CountLexemes == {"a", "bb", " ", "\n"}

\* what a word of an analyzed text may be
AnalyzerWords == {<<"the">>, <<"cat">>, <<"Cat", ",">>, <<"dog">>, <<"a">>}

\* the words of ws with one space between them
RECURSIVE Spaced(_)
Spaced(ws) ==
  IF ws = <<>> THEN <<>>
  ELSE IF Len(ws) = 1 THEN Head(ws)
  ELSE Head(ws) \o <<" ">> \o Spaced(Tail(ws))

\* sixteen distinct words, one more than the analyzer returns
ManyWords ==
  <<"one", "two", "three", "four", "five", "six", "seven", "eight", "nine",
    "ten", "eleven", "twelve", "thirteen", "fourteen", "fifteen", "sixteen">>

\* texts longer than MaxWords: the sixteen words with the last one said
\* twice, the same after a stop word, and "the the cat cat cat"
LongTexts ==
  {Spaced([i \in 1..16 |-> <<ManyWords[i]>>] \o << <<"sixteen">> >>),
   Spaced(<< <<"the">> >> \o [i \in 1..16 |-> <<ManyWords[i]>>]),
   Spaced(<< <<"the">>, <<"the">>, <<"cat">>, <<"cat">>, <<"cat">> >>)}

ProbeTexts ==
  SeqsUpTo(CountLexemes, MaxTextLen)
    \cup {Spaced(ws) : ws \in SeqsUpTo(AnalyzerWords, MaxWords)}
    \cup LongTexts

InitProbe ==
  /\ text = <<>> /\ results = NULL /\ fileName = NULL
  /\ fileError = NULL /\ urlError = NULL
  /\ url = <<>> /\ isUrlLoading = FALSE /\ isLoading = FALSE
  /\ pc = "idle" /\ proxyIdx = 0 /\ callUrl = <<>>
  /\ attempts = <<>> /\ pending = {} /\ causes = {} /\ relayContent = <<>>
  /\ outcome = NoOutcome
  /\ isOcrProcessing = FALSE /\ ocrProgress = 0
  /\ file = NoFile /\ fpc = "idle" /\ pageNo = 0
  /\ fullText = <<>> /\ ocrText = <<>> /\ ocrSite = "none" /\ ocrCalls = 0
  /\ layer = NoLayer /\ engineProgress = -1 /\ worker = NoWorker
  /\ filterStopWords = TRUE /\ submitFilter = TRUE /\ fileFilter = TRUE
  /\ pageLog = <<>> /\ ocrEnd = NoOcrEnd /\ relay = NoRelay /\ zone = NoZone
  /\ probe \in {[fn |-> "none", textToCount |-> t, filter |-> b, used |-> TRUE,
                   out |-> <<>>] : t \in ProbeTexts, b \in BOOLEAN}
  /\ last = "init"

\* countWordsAndCharacters(probe.textToCount) called in the current state;
\* used is the filterStopWords that the call read
Count ==
  /\ probe' = [probe EXCEPT !.fn = "count", !.used = filterStopWords,
                 !.out = countWordsAndCharacters(probe.textToCount, text, filterStopWords)]
  /\ UNCHANGED <<last, filterStopWords, relay, zone, isOcrProcessing, ocrProgress>>
  /\ UNCHANGED appVars /\ UNCHANGED callVars /\ UNCHANGED fileVars

\* analyzeRepeatedWords(probe.textToCount, probe.filter) called
Analyze ==
  /\ probe' = [probe EXCEPT !.fn = "analyze", !.used = probe.filter,
                 !.out = <<analyzeRepeatedWords(probe.textToCount, probe.filter)>>]
  /\ UNCHANGED <<last, filterStopWords, relay, zone, isOcrProcessing, ocrProgress>>
  /\ UNCHANGED appVars /\ UNCHANGED callVars /\ UNCHANGED fileVars

NextProbe ==
  \/ Count
  \/ Analyze
  \/ \E t \in TextSamples : handleTextChange(t)
  \/ toggleFilterStopWords

SpecProbe == InitProbe /\ [][NextProbe]_vars

(***************************************************************************)
(* Properties of the webpage fetch.                                        *)
(***************************************************************************)
IsPrefix(a, b) == Len(a) <= Len(b) /\ a = SubSeq(b, 1, Len(a))

\* C1: the transports of one call are attempted one after another in the
\* order relay, direct, proxy 1..10, each at most once, never two at a time,
\* and none after the one that produced the returned text.
C1_SequentialFixedOrder ==
  /\ IsPrefix(attempts, Chain)
  /\ Cardinality(pending) <= 1
  /\ pending # {} => (pc # "idle" /\ pending = {attempts[Len(attempts)]})
  /\ outcome.status = "returned" =>
       (pending = {} /\ attempts # <<>> /\ attempts[Len(attempts)] = outcome.by)

C1_Witness ==
  /\ outcome.status = "returned"
  /\ outcome.by = Proxy(2)
  /\ attempts = SubSeq(Chain, 1, 4)

\* C2: once the relay has answered with non-empty content, no other
\* transport is attempted in that call.
C2_RelayContentEndsChain ==
  relayContent # <<>> => (attempts = <<Relay>> /\ pc = "idle")

\* C3: when every transport has failed, the error the caller receives is the
\* composite message that lists the causes and the alternatives.
C3_CompositeErrorSurfaces ==
  (outcome.status = "thrown" /\ attempts = Chain) =>
     (outcome.msg = AllFailedMsg /\ urlError = AllFailedMsg)

\* C4: when the HTML accepted from a transport reduces to empty text, the
\* call fails with parseHTML's empty-content error and the caller receives it.
C4_EmptyContentErrorSurfaces ==
  "empty" \in causes =>
     /\ pc = "idle"
     /\ outcome.status = "thrown"
     /\ outcome.msg \in {NoBodyMsg, NoReadableMsg}
     /\ urlError = outcome.msg

\* C5: each failure message is produced for its own cause: the network
\* message for a connectivity failure, the timeout message for a timeout,
\* the 403/404/500 messages for an HTTP status, the composite message when
\* the transports are exhausted.
C5_MessagePerCause ==
  outcome.status = "thrown" =>
     /\ outcome.msg = NetworkMsg => "network" \in causes
     /\ outcome.msg = TimeoutMsg => "timeout" \in causes
     /\ outcome.msg \in {NotFoundMsg, ForbiddenMsg, ServerErrorMsg} => "http" \in causes
     /\ (attempts = Chain /\ causes \subseteq {"other", "empty"}) => outcome.msg = AllFailedMsg

\* C6: a proxy's content is accepted only if its trimmed length is at least
\* 50 and it contains "<html", "<body" or "<div"; "<div>hi</div>" is not.
C6_ProxyAcceptance ==
  (outcome.status = "returned" /\ outcome.by[1] = "proxy") =>
     /\ StrLen(Trim(outcome.html)) >= 50
     /\ \/ Includes(outcome.html, <<"<html">>)
        \/ Includes(outcome.html, <<"<body">>)
        \/ Includes(outcome.html, <<"<div">>)
     /\ outcome.html # ShortDiv

C6_Witness ==
  /\ outcome.status = "returned"
  /\ outcome.by = Proxy(3)
  /\ outcome.html = PaddedDiv(MinHtmlLen)
  /\ "other" \in causes

\* C7: the call fails only after every transport has been attempted; the
\* failure of one transport never ends the call while another is untried.
C7_FailsOnlyWhenExhausted ==
  /\ outcome.status = "thrown" => attempts = Chain
  /\ (pc # "idle" /\ causes # {}) => pending # {}

C7_Witness ==
  /\ outcome.status = "thrown"
  /\ {"network", "timeout", "http", "other", "empty"} \subseteq causes

HasScheme(u) == \E i \in 1..Len(u) : u[i] \in {"http:", "https:"}

\* C8: a submit with a blank or unparsable URL only sets the invalid-URL
\* error: no transport is attempted, isUrlLoading is not set, and text,
\* results and fileName keep their values.
C8_InvalidUrlRejected ==
  [][ /\ last' = "handleUrlSubmit:fetch" => HasScheme(url)
      /\ last' \in {"handleUrlSubmit:blank", "handleUrlSubmit:invalid"} =>
           /\ ~HasScheme(url)
           /\ urlError' \in {BlankUrlMsg, InvalidUrlMsg}
           /\ ~isUrlLoading /\ ~isUrlLoading'
           /\ pc' = "idle" /\ attempts' = <<>> /\ pending' = {}
           /\ text' = text /\ results' = results /\ fileName' = fileName ]_vars

C8_Witness ==
  /\ last = "handleUrlSubmit:invalid"
  /\ url = <<"example.com">>
  /\ text # <<>> /\ results # NULL

(***************************************************************************)
(* Properties of the PDF extractor and of the OCR run.                     *)
(***************************************************************************)
\* C9: OCR is invoked if and only if the text-layer extraction threw or its
\* trimmed text has fewer than 50 characters; with 50 characters or more
\* OCR is never invoked and the text-layer text is what is returned.
C9_OcrFallbackRule ==
  /\ layer.status = "none" => (ocrCalls = 0 /\ ~isOcrProcessing)
  /\ layer.status = "threw" => ocrCalls >= 1
  /\ layer.status = "returned" => (ocrCalls >= 1 <=> StrLen(layer.text) < 50)
  /\ (layer.status = "returned" /\ StrLen(layer.text) >= 50) =>
        /\ fpc = "idle" /\ ~isOcrProcessing /\ worker.created = 0
        /\ last = "PdfPageRead" => (text = layer.text /\ fileError = NULL)

C9_Witness ==
  /\ layer.status = "returned"
  /\ StrLen(layer.text) = 49
  /\ fpc = "ocr:recognize"
  /\ ocrCalls = 1

\* C10: within one OCR run the progress values never decrease.
C10_ProgressMonotone ==
  [][ (isOcrProcessing /\ isOcrProcessing' /\ ocrCalls' = ocrCalls)
        => ocrProgress' >= ocrProgress ]_vars

\* the pages that page loop log has begun to do what
Begun(log, what) == {log[j][2] : j \in {k \in 1..Len(log) : log[k][1] = what}}

\* a page that renders and is recognized as text that is not blank
Recognizable(page) ==
  ~page.renderThrows /\ ~page.ocrThrows /\ Trim(page.ocr) # <<>>

\* C11: a page that fails to render or to be recognized never ends the OCR
\* run: every page of the document is still rendered, the run returns text
\* that is not empty when some page is recognized with text, and the run
\* throws only where the document is opened, the worker created or the
\* worker terminated.
C11_PageFailuresAbsorbed ==
  /\ ocrEnd.status = "threw" => ocrEnd.at \in {"open", "worker", "terminate"}
  /\ fpc = "ocr:terminate" => Begun(pageLog, "render") = 1..Len(file.pages)
  /\ ocrEnd.status = "returned" =>
       /\ Begun(pageLog, "render") = 1..Len(file.pages)
       /\ (\E i \in 1..Len(file.pages) : Recognizable(file.pages[i]))
             => ocrEnd.text # <<>>

C11_Witness ==
  /\ ocrEnd.status = "returned"
  /\ Len(file.pages) = 2
  /\ 1 \in Begun(pageLog, "failed")
  /\ 2 \in Begun(pageLog, "recognized")
  /\ ocrEnd.text # <<>>

InOcrLoop == fpc \in {"ocr:render", "ocr:recognize"}

\* C12: outside the page loop of an OCR run, terminate has been called on
\* every worker that was created, whether the pages succeeded or failed; a
\* run that returned has had its worker terminated.
C12_WorkerTerminated ==
  /\ worker.terminateCalls = worker.created - (IF InOcrLoop THEN 1 ELSE 0)
  /\ worker.terminated <= worker.terminateCalls
  /\ (ocrEnd.status = "returned" /\ fpc = "idle") => worker.terminated >= 1

C12_Witness ==
  /\ ocrEnd.status = "returned"
  /\ fpc = "idle"
  /\ Begun(pageLog, "failed") = 1..MaxPages
  /\ worker.created = 1 /\ worker.terminated = 1

\* the text-layer text of pages 1..k in ascending order (lines 203-210)
RECURSIVE LayerText(_, _)
LayerText(pages, k) ==
  IF k = 0 THEN <<>>
  ELSE LayerText(pages, k - 1) \o Join(pages[k].items) \o <<"\n">>

\* the recognized text of pages 1..k in ascending order
RECURSIVE OcrTextOf(_, _)
OcrTextOf(pages, k) ==
  IF k = 0 THEN <<>>
  ELSE OcrTextOf(pages, k - 1)
         \o (IF Recognizable(pages[k]) THEN Trim(pages[k].ocr) \o <<"\n", "\n">>
             ELSE <<>>)

\* log takes the pages one after another from page 1 on: a page is begun
\* only when the page before it has been read, recognized or has failed
Sequential(log) ==
  \A j \in 1..Len(log) :
    LET what == log[j][1]
        i == log[j][2]
    IN CASE what = "read" ->
              IF j = 1 THEN i = 1 ELSE log[j - 1] = <<"read", i - 1>>
         [] what = "render" ->
              IF j = 1 THEN i = 1
              ELSE log[j - 1] \in {<<"recognized", i - 1>>, <<"failed", i - 1>>}
         [] what = "recognize" -> j > 1 /\ log[j - 1] = <<"render", i>>
         [] what = "recognized" -> j > 1 /\ log[j - 1] = <<"recognize", i>>
         [] what = "failed" ->
              j > 1 /\ log[j - 1] \in {<<"render", i>>, <<"recognize", i>>}

\* C13: the pages of a PDF are taken one at a time in the order 1..N, by the
\* text-layer loop and by the OCR loop, and the text is the concatenation of
\* the page texts in that order.
C13_PagesInOrder ==
  /\ Sequential(pageLog)
  /\ fpc = "pdf:page" =>
       /\ pageLog = [i \in 1..pageNo |-> <<"read", i>>]
       /\ fullText = LayerText(file.pages, pageNo - 1)
  /\ layer.status = "returned" =>
       layer.text = Trim(LayerText(file.pages, Len(file.pages)))
  /\ InOcrLoop =>
       /\ pageLog[Len(pageLog)][2] = pageNo
       /\ ocrText = OcrTextOf(file.pages, pageNo - 1)
  /\ ocrEnd.status = "returned" =>
       ocrEnd.text = Trim(OcrTextOf(file.pages, Len(file.pages)))

C13_Witness ==
  /\ ocrEnd.status = "returned"
  /\ file.pages = <<ScanPage, HalfPage>>
  /\ text = <<"scanned", " ", "text", "\n", "\n", "half">>

(***************************************************************************)
(* Properties of the whole app.                                            *)
(***************************************************************************)
\* C14: a file extraction and a webpage fetch are never in progress at the
\* same time: while one is loading, what starts the other is disabled.
C14_OneIngestionAtATime ==
  /\ ~(pc # "idle" /\ fpc # "idle")
  /\ ~(isUrlLoading /\ (isLoading \/ isOcrProcessing))

\* the number of maximal runs of lexemes of s that are not whitespace
Runs(s) ==
  Cardinality({i \in 1..Len(s) : ~IsWs(s[i]) /\ (i = 1 \/ IsWs(s[i - 1]))})

\* the number of characters of s that are not whitespace
RECURSIVE NonWsLen(_)
NonWsLen(s) ==
  IF s = <<>> THEN 0
  ELSE (IF IsWs(Head(s)) THEN 0 ELSE Len(Head(s))) + NonWsLen(Tail(s))

Blank(s) == \A i \in 1..Len(s) : IsWs(s[i])

\* C15: when nothing is in progress, results is null exactly when the text
\* is blank, and otherwise holds the three counts of the current text.
C15_ResultsFollowText ==
  (pc = "idle" /\ fpc = "idle") =>
     /\ results = NULL <=> Blank(text)
     /\ results # NULL =>
          /\ results[1].wordCount = Runs(text)
          /\ results[1].charCountExcludingSpaces = NonWsLen(text)
          /\ results[1].charCountIncludingSpaces = StrLen(text)

C15_Witness ==
  /\ pc = "idle" /\ fpc = "idle"
  /\ ocrEnd.status = "returned"
  /\ outcome.status = "returned"
  /\ last = "ProxySettles"
  /\ results # NULL

(***************************************************************************)
(* Properties of the counter and of the analyzer.                          *)
(***************************************************************************)
\* C16: for a text that is not blank, charCountIncludingSpaces is the length
\* of the text as given, its leading and trailing whitespace included.
C16_RawLength ==
  (probe.fn = "count" /\ ~Blank(probe.textToCount)) =>
     /\ probe.out # NULL
     /\ probe.out[1].charCountIncludingSpaces = StrLen(probe.textToCount)

C16_Witness ==
  /\ probe.fn = "count"
  /\ probe.textToCount = <<" ", "bb", "\n", " ">>
  /\ probe.out[1].charCountIncludingSpaces = 5

\* C17: charCountExcludingSpaces is the number of characters that are not
\* whitespace (space, newline and tab all removed), and is never larger than
\* charCountIncludingSpaces.
C17_NonWhitespaceCount ==
  (probe.fn = "count" /\ probe.out # NULL /\ probe.textToCount # <<>>) =>
     /\ probe.out[1].charCountExcludingSpaces = NonWsLen(probe.textToCount)
     /\ probe.out[1].charCountExcludingSpaces <= probe.out[1].charCountIncludingSpaces

C17_Witness ==
  /\ probe.fn = "count"
  /\ probe.textToCount = <<"a", "\n", " ", "bb">>
  /\ probe.out[1].charCountExcludingSpaces = 3

\* C18: wordCount is the number of maximal runs of characters that are not
\* whitespace: a run of whitespace separates once, and whitespace at either
\* end adds no word.
C18_WordCount ==
  (probe.fn = "count" /\ probe.out # NULL /\ probe.textToCount # <<>>) =>
     probe.out[1].wordCount = Runs(probe.textToCount)

C18_Witness ==
  /\ probe.fn = "count"
  /\ probe.textToCount = <<" ", "a", " ", "\n">>
  /\ probe.out[1].wordCount = 1

\* C19: counting a text that is empty or blank gives null, whatever the
\* current text of the app is.
C19_BlankGivesNull ==
  (probe.fn = "count" /\ Blank(probe.textToCount)) => probe.out = NULL

\* the index of the first word of words that is word
FirstIndex(word, words) ==
  CHOOSE i \in 1..Len(words) :
    words[i] = word /\ \A j \in 1..(i - 1) : words[j] # word

\* C20: the entries of the analysis are in non-increasing order of count,
\* and entries of equal count are in the order in which their words first
\* occur in the text.
C20_SortedStable ==
  probe.fn = "analyze" =>
     LET topWords == probe.out[1].topWords
         words == FilteredWords(probe.textToCount, probe.filter)
     IN \A i, j \in 1..Len(topWords) :
          i < j =>
            /\ topWords[i].count >= topWords[j].count
            /\ topWords[i].count = topWords[j].count =>
                 FirstIndex(topWords[i].word, words) < FirstIndex(topWords[j].word, words)

C20_Witness ==
  /\ probe.fn = "analyze"
  /\ probe.textToCount = <<"dog", " ", "cat", " ", "cat", " ", "the">>
  /\ ~probe.filter
  /\ Len(probe.out[1].topWords) = 3
  /\ probe.out[1].topWords[1].word = "cat" /\ probe.out[1].topWords[1].count = 2
  /\ probe.out[1].topWords[2].word = "dog"
  /\ probe.out[1].topWords[3].word = "the"

\* the set of the words of a sequence
Range(words) == {words[i] : i \in 1..Len(words)}

\* entry word a comes before entry word b in the sorted sequence: its count
\* is greater, or the counts are equal and it occurs first
Before(a, b, words) ==
  \/ Occurrences(a, words) > Occurrences(b, words)
  \/ /\ Occurrences(a, words) = Occurrences(b, words)
     /\ FirstIndex(a, words) < FirstIndex(b, words)

\* C21: topWords holds the first min(15, n) entries of the sorted sequence
\* of the n distinct considered words, totalUniqueWords is n, and
\* mostRepeatedWord is absent iff topWords is empty and is topWords[0]
\* otherwise.
C21_TopFifteen ==
  probe.fn = "analyze" =>
     LET out == probe.out[1]
         words == FilteredWords(probe.textToCount, probe.filter)
         n == Cardinality(Range(words))
         top == {out.topWords[i].word : i \in 1..Len(out.topWords)}
     IN /\ Len(out.topWords) = Min(TopWordsLimit, n)
        /\ out.totalUniqueWords = n
        /\ Cardinality(top) = Len(out.topWords)
        /\ top \subseteq Range(words)
        /\ \A i \in 1..Len(out.topWords) :
              /\ out.topWords[i].count = Occurrences(out.topWords[i].word, words)
              /\ \A j \in (i + 1)..Len(out.topWords) :
                    Before(out.topWords[i].word, out.topWords[j].word, words)
        /\ \A a \in top : \A b \in Range(words) \ top : Before(a, b, words)
        /\ (out.mostRepeatedWord = NULL) <=> (out.topWords = <<>>)
        /\ out.topWords # <<>> => out.mostRepeatedWord = <<out.topWords[1]>>

C21_Witness ==
  /\ probe.fn = "analyze"
  /\ probe.textToCount \in LongTexts
  /\ Len(probe.out[1].topWords) = TopWordsLimit
  /\ probe.out[1].totalUniqueWords = 16
  /\ probe.out[1].topWords[1].word = "sixteen"
  /\ probe.out[1].topWords[15].word = "fourteen"
  /\ probe.out[1].mostRepeatedWord[1].count = 2

\* the text of the example
TheTheCat == <<"the", " ", "the", " ", "cat", " ", "cat", " ", "cat">>

\* C22: with filterStopWords = true no stop word is in the analysis and
\* totalUniqueWords counts only the words that are not stop words;
\* analyze("the the cat cat cat", true) has {cat, 3} first and 1 unique
\* word, and with false "the" is counted and "cat" is still first.
C22_StopWordsFiltered ==
  probe.fn = "analyze" =>
     LET out == probe.out[1]
         unfiltered == FilteredWords(probe.textToCount, FALSE)
     IN /\ probe.filter =>
             /\ \A i \in 1..Len(out.topWords) : out.topWords[i].word \notin stopWords
             /\ out.mostRepeatedWord # NULL => out.mostRepeatedWord[1].word \notin stopWords
             /\ out.totalUniqueWords = Cardinality(Range(unfiltered) \ stopWords)
        /\ ~probe.filter => out.totalUniqueWords = Cardinality(Range(unfiltered))
        /\ probe.textToCount = TheTheCat =>
             /\ out.topWords[1].word = "cat" /\ out.topWords[1].count = 3
             /\ probe.filter => out.totalUniqueWords = 1 /\ Len(out.topWords) = 1
             /\ ~probe.filter =>
                  /\ out.totalUniqueWords = 2
                  /\ out.topWords[2].word = "the" /\ out.topWords[2].count = 2

C22_Witness ==
  /\ probe.fn = "analyze"
  /\ probe.textToCount = TheTheCat
  /\ probe.filter
  /\ probe.out[1].totalUniqueWords = 1
  /\ probe.out[1].mostRepeatedWord[1].word = "cat"
  /\ probe.out[1].mostRepeatedWord[1].count = 3

\* the sum of the counts of entries
RECURSIVE SumCounts(_)
SumCounts(entries) ==
  IF entries = <<>> THEN 0 ELSE Head(entries).count + SumCounts(Tail(entries))

\* C23: the counts of the distinct considered words add up to the number
\* of words left after the length and stop-word filters (for the words that
\* are returned: to the number of their occurrences), and the percentage of
\* an entry is 100 * count over that number of words.
C23_PercentageOverConsidered ==
  probe.fn = "analyze" =>
     LET out == probe.out[1]
         words == FilteredWords(probe.textToCount, probe.filter)
         top == {out.topWords[i].word : i \in 1..Len(out.topWords)}
     IN /\ SumCounts(out.topWords) = Cardinality({i \in 1..Len(words) : words[i] \in top})
        /\ out.totalUniqueWords = Len(out.topWords) => SumCounts(out.topWords) = Len(words)
        /\ \A i \in 1..Len(out.topWords) :
              LET e == out.topWords[i]
              IN /\ e.percentage.den > 0
                 /\ e.percentage.num * Len(words) = 100 * e.count * e.percentage.den

C23_Witness ==
  /\ probe.fn = "analyze"
  /\ probe.textToCount = <<"the", " ", "cat", " ", "a", " ", "dog">>
  /\ probe.filter
  /\ Len(FilteredWords(probe.textToCount, FALSE)) = 3
  /\ Len(probe.out[1].topWords) = 2
  /\ probe.out[1].topWords[1].word = "cat"
  /\ probe.out[1].topWords[1].percentage = [num |-> 100, den |-> 2]

\* the tokens of a text as it was given: the maximal runs of lexemes that
\* are not whitespace; cur is the run being read
RECURSIVE RawTokens(_, _)
RawTokens(s, cur) ==
  IF s = <<>> THEN (IF cur = <<>> THEN <<>> ELSE <<cur>>)
  ELSE IF IsWs(Head(s))
       THEN (IF cur = <<>> THEN <<>> ELSE <<cur>>) \o RawTokens(Tail(s), <<>>)
       ELSE RawTokens(Tail(s), Append(cur, Head(s)))

\* a token in lower case with its punctuation deleted
RECURSIVE NormalForm(_)
NormalForm(tok) ==
  IF tok = <<>> THEN ""
  ELSE IF Head(tok) \in NonWord THEN NormalForm(Tail(tok))
  ELSE toLowerCase(Head(tok)) \o NormalForm(Tail(tok))

\* C24: a word is counted once for every token of the text that is that
\* word after lowercasing and deleting the characters that are neither word
\* characters nor whitespace, and a token that is left with at most one
\* character is not counted.
C24_Normalized ==
  probe.fn = "analyze" =>
     LET out == probe.out[1]
         toks == RawTokens(probe.textToCount, <<>>)
         forms == [i \in 1..Len(toks) |-> NormalForm(toks[i])]
         top == {out.topWords[i].word : i \in 1..Len(out.topWords)}
     IN /\ \A i \in 1..Len(out.topWords) :
              /\ Len(out.topWords[i].word) > 1
              /\ out.topWords[i].count =
                   Cardinality({k \in 1..Len(forms) : forms[k] = out.topWords[i].word})
        /\ \A k \in 1..Len(forms) : Len(forms[k]) <= 1 => forms[k] \notin top
        /\ out.totalUniqueWords = Len(out.topWords) =>
             \A k \in 1..Len(forms) :
               (Len(forms[k]) > 1 /\ (probe.filter => forms[k] \notin stopWords))
                  => forms[k] \in top

C24_Witness ==
  /\ probe.fn = "analyze"
  /\ probe.textToCount = <<"Cat", ",", " ", "cat", " ", "a">>
  /\ Len(probe.out[1].topWords) = 1
  /\ probe.out[1].topWords[1].word = "cat"
  /\ probe.out[1].topWords[1].count = 2

\* C25: for an empty or whitespace-only text the analysis has no entries,
\* 0 unique words and no most repeated word, and for every text its
\* stopWordsFiltered is the filterStopWords it was called with.
C25_BlankAnalysis ==
  probe.fn = "analyze" =>
     /\ Blank(probe.textToCount) =>
          /\ probe.out[1].topWords = <<>>
          /\ probe.out[1].totalUniqueWords = 0
          /\ probe.out[1].mostRepeatedWord = NULL
     /\ probe.out[1].stopWordsFiltered = probe.filter

C25_Witness ==
  /\ probe.fn = "analyze"
  /\ probe.textToCount = <<" ", "\n">>
  /\ ~probe.filter
  /\ probe.out[1] = [topWords |-> <<>>, totalUniqueWords |-> 0,
                      mostRepeatedWord |-> NULL, stopWordsFiltered |-> FALSE]

\* C26: two calls of count on the same string under the same filter flag,
\* and two calls of analyze on the same string and flag, give the same
\* result, whatever the app has done between them.
C26_Deterministic ==
  [][(/\ probe.fn # "none"
      /\ probe'.fn = probe.fn
      /\ probe'.textToCount = probe.textToCount
      /\ probe'.used = probe.used) => probe'.out = probe.out]_vars

\* the step is the return to processFile of an extractor that was not
\* rejected, and the text it returns is empty or whitespace
ReturnsBlank ==
  \/ fpc = "docx" /\ file.opens /\ Blank(file.content)
  \/ fpc = "txt" /\ last' = "TxtSettles:onload" /\ Blank(file.content)
  \/ fpc = "ocr:terminate" /\ ocrEnd'.status = "returned" /\ Blank(ocrEnd'.text)

\* C27: when the extractor returns a text that is empty after trimming,
\* processFile sets the "No text could be extracted" file error and leaves
\* the text empty, results null and fileName null.
C27_EmptyExtractionRejected ==
  [][ReturnsBlank =>
       /\ fileError' = NoFileTextMsg
       /\ text' = <<>> /\ results' = NULL /\ fileName' = NULL
       /\ ~isLoading' /\ fpc' = "idle"]_vars

C27_Witness ==
  /\ fpc = "idle"
  /\ last = "OcrTerminated"
  /\ ocrEnd.status = "returned" /\ ocrEnd.text = <<>>
  /\ file.pages = <<BlankPage>>
  /\ fileError = NoFileTextMsg
  /\ text = <<>> /\ results = NULL /\ fileName = NULL

\* the MIME types processFile is to accept, and the sample names that end
\* in .md or .srt when case is ignored
AcceptedTypes ==
  {PdfMime, DocxMime, "text/plain", "text/markdown", "application/x-subrip"}
MdOrSrtNames == {"NOTES.MD", "notes.md", "a.srt"}

ShouldAccept(f) == f.type \in AcceptedTypes \/ f.name \in MdOrSrtNames

\* the extractor that is to read f, and the one a position of processFile
\* belongs to
ExtractorFor(f) ==
  IF f.type = PdfMime THEN "pdf" ELSE IF f.type = DocxMime THEN "docx" ELSE "txt"
ExtractorAt(at) == IF at \in {"docx", "txt"} THEN at ELSE "pdf"

C30_OcrAtMostOnce == ocrCalls <= 1

\* the request is one the relay is to answer with the content: a GET whose
\* url parameter is present and parses, answered upstream with a 2xx status
\* and a body that arrived, has 50 characters or more once trimmed, and
\* contains "<html", "<body" or "<div"
Deserving ==
  /\ relay.req.method = "GET"
  /\ relay.req.url # <<>> /\ UrlParses(relay.req.url)
  /\ relay.response.kind = "http"
  /\ relay.response.status \in 200..299
  /\ last = "BodySettles:read"
  /\ StrLen(Trim(relay.response.body)) >= 50
  /\ \E marker \in {"<html", "<body", "<div"} : Includes(relay.response.body, <<marker>>)

\* C29: the relay answers a request other than OPTIONS with status 200 and
\* a body {content, length, url, timestamp} exactly when the request is a
\* GET with a url that parses, the upstream answered 2xx and its body
\* passes the length and marker tests; otherwise the status is 405 for a
\* method other than GET, 400 for a missing or invalid url and 500 for an
\* upstream failure or rejected content, and the body has an error field.
C29_RelayContract ==
  (relay.pc = "idle" /\ relay.req.method \notin {"", "OPTIONS"}) =>
     IF Deserving
     THEN /\ relay.res.status = 200
          /\ DOMAIN relay.res.body = {"content", "length", "url", "timestamp"}
          /\ relay.res.body.content = relay.response.body
          /\ relay.res.body.length = StrLen(relay.response.body)
          /\ relay.res.body.url = relay.req.url
     ELSE /\ relay.res.status \notin 200..299
          /\ "error" \in DOMAIN relay.res.body
          /\ relay.res.body.error # <<>>
          /\ relay.res.status =
               IF relay.req.method # "GET" THEN 405
               ELSE IF relay.req.url = <<>> \/ ~UrlParses(relay.req.url) THEN 400
               ELSE 500

C29_Witness ==
  /\ relay.pc = "idle"
  /\ relay.req = [method |-> "GET", url |-> <<"https:", "//", "example.com">>]
  /\ relay.response.status = 204
  /\ relay.response.body = PaddedDiv(MinRelayLen)
  /\ relay.res.status = 200
  /\ relay.res.body.length = MinRelayLen + 3

(***************************************************************************)
(* Properties of the app's flags and of the filter toggle.                 *)
(***************************************************************************)
\* C31: whenever there are results, the analysis they hold was computed
\* with the current filterStopWords.
C31_AnalysisFollowsToggle ==
  results # NULL => results[1].repeatedWordsAnalysis.stopWordsFiltered = filterStopWords

\* C32: when every awaited call settles, a processFile that set isLoading
\* clears it, a handleUrlSubmit that set isUrlLoading clears it, and an OCR
\* run that set isOcrProcessing clears it and puts ocrProgress back to 0;
\* no flag is set while its operation is not in progress.
C32_FlagsCleared ==
  /\ isLoading ~> ~isLoading
  /\ isUrlLoading ~> ~isUrlLoading
  /\ isOcrProcessing ~> (~isOcrProcessing /\ ocrProgress = 0)
  /\ [](pc = "idle" => ~isUrlLoading)
  /\ [](fpc = "idle" => ~isLoading /\ ~isOcrProcessing /\ ocrProgress = 0)

C32_Witness ==
  /\ fpc = "idle" /\ pc = "idle"
  /\ ocrCalls = 2 /\ ocrEnd.status = "threw"
  /\ fileError = PdfFailedMsg
  /\ outcome.status = "thrown" /\ urlError # NULL
  /\ ~isLoading /\ ~isUrlLoading /\ ~isOcrProcessing /\ ocrProgress = 0

(***************************************************************************)
(* Properties of what the file handlers leave behind.                      *)
(***************************************************************************)
\* the text layer of the file gave between 1 and 49 characters
ShortLayer ==
  /\ layer.status = "returned"
  /\ layer.text # <<>>
  /\ StrLen(layer.text) < MinPdfTextLen

\* what recognition makes of the pages of the file
OcrOutput == Trim(OcrTextOf(file.pages, Len(file.pages)))

\* C33: when OCR was started because the text layer gave between 1 and 49
\* characters, the extraction ends with the outcome of the OCR run alone:
\* the recognized text if there is some, the no-text error if there is
\* none, the PDF error if the run threw; the text-layer text is never what
\* the app gets.
C33_OcrOutputOnly ==
  [][ (ShortLayer /\ fpc # "idle" /\ fpc' = "idle") =>
        /\ ocrCalls' >= 1
        /\ ocrEnd'.status \in {"returned", "threw"}
        /\ ocrEnd'.status = "returned" =>
              /\ ocrEnd'.text = OcrOutput
              /\ IF OcrOutput # <<>>
                 THEN text' = OcrOutput /\ results' # NULL /\ fileError' = NULL
                 ELSE /\ fileError' = NoFileTextMsg
                      /\ text' = <<>> /\ results' = NULL /\ fileName' = NULL
        /\ ocrEnd'.status = "threw" =>
              /\ fileError' = PdfFailedMsg /\ fileName' = NULL
              /\ UNCHANGED <<text, results>>
        /\ text' # layer.text ]_vars

C33_Witness ==
  /\ ShortLayer
  /\ fpc = "idle" /\ last = "OcrTerminated"
  /\ ocrEnd.status = "returned" /\ ocrEnd.text = <<>>
  /\ fileError = NoFileTextMsg /\ text = <<>> /\ results = NULL

\* C34: a processFile that rejects a file for its type sets fileError and
\* nothing else: text, results, fileName, isLoading and the other fields of
\* the app stay as they are, and no extractor is started.
C34_RejectionFrame ==
  [][ (last' \in {"processFile", "processFile:rejected"} /\ ~ShouldAccept(file')) =>
        /\ fileError' = InvalidTypeMsg
        /\ UNCHANGED <<text, results, fileName, isLoading, urlError, url, isUrlLoading>>
        /\ UNCHANGED ocrVars
        /\ fpc' = "idle" /\ ocrCalls' = 0 /\ layer' = NoLayer /\ worker' = NoWorker ]_vars

C34_Witness ==
  /\ last = "processFile:rejected"
  /\ file.type = "image/png"
  /\ fileError = InvalidTypeMsg
  /\ text # <<>> /\ results # NULL
  /\ ~isLoading /\ fpc = "idle"

\* a handleUrlSubmit that had started a fetch ends
SubmitEnds == isUrlLoading /\ ~isUrlLoading'

\* C35: when a fetch that was started fails, or gives blank text, the
\* handler ends with urlError set, text empty, results null and fileName
\* null, whatever content there was before.
C35_FailedFetchDiscards ==
  [][ SubmitEnds =>
        /\ outcome'.status \in {"returned", "thrown"}
        /\ outcome'.status = "thrown" =>
              /\ urlError' = outcome'.msg /\ urlError' # NULL
              /\ text' = <<>> /\ results' = NULL /\ fileName' = NULL
        /\ (outcome'.status = "returned" /\ Trim(outcome'.text) = <<>>) =>
              /\ urlError' = NoTextMsg
              /\ text' = <<>> /\ results' = NULL /\ fileName' = NULL ]_vars

\* the fetch failed after a file had been read while it was under way
C35_Witness ==
  /\ last = "ProxySettles" /\ pc = "idle"
  /\ outcome.status = "thrown"
  /\ urlError = outcome.msg /\ urlError # NULL
  /\ text = <<>> /\ results = NULL /\ fileName = NULL
  /\ fpc = "idle" /\ file.name = "a.txt" /\ fileError = NULL

(***************************************************************************)
(* The two HTML reductions applied directly to a document, and the         *)
(* clean-up applied once more to what they return.                         *)
(***************************************************************************)
HtmlLexemes == {"<p", "<script", "</script", ">", "a", " ", "\n", "\t"}

\* a page with a script, blank lines, a tab and spaces at both ends
ScriptPage ==
  <<" ", "<script", ">", "x", "</script", ">", "\n", "<p", ">", "a", "\n", "\n", "b",
    "\t", " ", "c", "</p", ">", "\n">>

HtmlTexts ==
  SeqsUpTo(HtmlLexemes, MaxTextLen)
    \cup {GoodPage, EmptyPage, ShortDiv, PaddedDiv(MinHtmlLen), ScriptPage}

InitReduce ==
  /\ text = <<>> /\ results = NULL /\ fileName = NULL
  /\ fileError = NULL /\ urlError = NULL
  /\ url = <<>> /\ isUrlLoading = FALSE /\ isLoading = FALSE
  /\ pc = "idle" /\ proxyIdx = 0 /\ callUrl = <<>>
  /\ attempts = <<>> /\ pending = {} /\ causes = {} /\ relayContent = <<>>
  /\ outcome = NoOutcome
  /\ isOcrProcessing = FALSE /\ ocrProgress = 0
  /\ file = NoFile /\ fpc = "idle" /\ pageNo = 0
  /\ fullText = <<>> /\ ocrText = <<>> /\ ocrSite = "none" /\ ocrCalls = 0
  /\ layer = NoLayer /\ engineProgress = -1 /\ worker = NoWorker
  /\ filterStopWords = TRUE /\ submitFilter = TRUE /\ fileFilter = TRUE
  /\ pageLog = <<>> /\ ocrEnd = NoOcrEnd /\ relay = NoRelay /\ zone = NoZone
  /\ probe \in {[fn |-> "none", textToCount |-> t, filter |-> b, used |-> TRUE,
                   out |-> <<>>] : t \in HtmlTexts, b \in {TRUE}}
  /\ last = "init"

\* parseHTML(probe.textToCount) called: the app's, or the script's
Reduce(fn) ==
  /\ probe.fn = "none"
  /\ probe' = [probe EXCEPT !.fn = fn,
                 !.out = << IF fn = "parseHTML" THEN parseHTML(probe.textToCount)
                            ELSE parseHTMLByRegex(probe.textToCount) >>]
  /\ UNCHANGED <<last, filterStopWords, relay, zone, isOcrProcessing, ocrProgress>>
  /\ UNCHANGED appVars /\ UNCHANGED callVars /\ UNCHANGED fileVars

\* the clean-up applied to the text a reduction returned
CleanAgain ==
  /\ probe.fn \in {"parseHTML", "parseHTMLByRegex"}
  /\ probe.out[1].ok
  /\ probe' = [probe EXCEPT !.fn = "CleanUp", !.textToCount = probe.out[1].text,
                 !.out = <<Returned(CleanUp(probe.out[1].text))>>]
  /\ UNCHANGED <<last, filterStopWords, relay, zone, isOcrProcessing, ocrProgress>>
  /\ UNCHANGED appVars /\ UNCHANGED callVars /\ UNCHANGED fileVars

NextReduce ==
  \/ \E fn \in {"parseHTML", "parseHTMLByRegex"} : Reduce(fn)
  \/ CleanAgain

SpecReduce == InitReduce /\ [][NextReduce]_vars

\* t has no whitespace but single spaces between other lexemes
SingleSpaced(t) ==
  /\ t # <<>>
  /\ ~IsWs(t[1]) /\ ~IsWs(t[Len(t)])
  /\ \A i \in 1..Len(t) :
       IsWs(t[i]) => (t[i] = " " /\ ~IsWs(t[i - 1]) /\ ~IsWs(t[i + 1]))

\* C36: the text parseHTML returns is not empty, has no whitespace at
\* either end and no whitespace but single spaces inside (no newline, no
\* tab, no two spaces in a row); the clean-up applied to it again gives it
\* back unchanged.
C36_CleanText ==
  /\ (probe.fn \in {"parseHTML", "parseHTMLByRegex"} /\ probe.out[1].ok) =>
        SingleSpaced(probe.out[1].text)
  /\ probe.fn = "CleanUp" =>
        (probe.out[1].text = probe.textToCount /\ SingleSpaced(probe.textToCount))

C36_Witness ==
  /\ probe.fn = "CleanUp"
  /\ probe.textToCount = <<"a", " ", "b", " ", "c">>
  /\ probe.out[1].text = <<"a", " ", "b", " ", "c">>

(***************************************************************************)
(* DropZone (unnamed/part_002).  The browser sends a dragleave only for a  *)
(* dragenter it has sent, and none after a drop; while the file browser    *)
(* is open the page gets no pointer or key event.  The parent may change   *)
(* the disabled prop at any time.  handleDragOver (46-49) changes nothing. *)
(***************************************************************************)
MaxDrags == 2

Keys == {"Enter", " ", "a"}

zoneFrame ==
  /\ UNCHANGED <<filterStopWords, probe, relay>>
  /\ UNCHANGED appVars /\ UNCHANGED callVars /\ UNCHANGED ocrVars /\ UNCHANGED fileVars

\* the parent renders the DropZone with another disabled (App.tsx 919)
SetDisabled(b) ==
  /\ b # zone.disabled
  /\ zone' = [zone EXCEPT !.disabled = b, !.did = "none"]
  /\ last' = "SetDisabled"
  /\ zoneFrame

\* 16-31; valid is hasValidFiles
handleDragEnter(valid) ==
  /\ ~zone.dialog
  /\ zone.entered < MaxDrags
  /\ zone.dragCounter < MaxDrags
  /\ zone' = IF zone.disabled
             THEN [zone EXCEPT !.entered = @ + 1, !.did = "none"]
             ELSE [zone EXCEPT !.entered = @ + 1, !.dragCounter = @ + 1,
                               !.isDragValid = valid, !.isDragOver = TRUE,
                               !.did = "dragenter"]
  /\ last' = "handleDragEnter"
  /\ zoneFrame

\* 33-44
handleDragLeave ==
  /\ ~zone.dialog
  /\ zone.entered > 0
  /\ zone.dragCounter > -MaxDrags
  /\ zone' = IF zone.dragCounter - 1 = 0
             THEN [zone EXCEPT !.entered = @ - 1, !.dragCounter = 0,
                               !.isDragOver = FALSE, !.isDragValid = FALSE,
                               !.did = "dragleave"]
             ELSE [zone EXCEPT !.entered = @ - 1, !.dragCounter = @ - 1,
                               !.did = "dragleave"]
  /\ last' = "handleDragLeave"
  /\ zoneFrame

\* 51-64; n is files.length
handleDrop(n) ==
  /\ ~zone.dialog
  /\ zone.entered > 0
  /\ zone' = IF zone.disabled
             THEN [zone EXCEPT !.entered = 0, !.did = "none"]
             ELSE [zone EXCEPT !.entered = 0, !.dragCounter = 0,
                               !.isDragOver = FALSE, !.isDragValid = FALSE,
                               !.did = IF n > 0 THEN "onFilesDrop" ELSE "drop"]
  /\ last' = "handleDrop"
  /\ zoneFrame

\* 80-92 up to fileInput.click(): the file browser opens
triggerFileBrowser == [zone EXCEPT !.dialog = TRUE, !.did = "browser"]

\* the Tab key reaches the DropZone while its tabIndex is 0 (113)
FocusByTab ==
  /\ ~zone.dialog /\ ~zone.focused /\ ~zone.disabled
  /\ zone' = [zone EXCEPT !.focused = TRUE, !.did = "none"]
  /\ last' = "FocusByTab"
  /\ zoneFrame

Blur ==
  /\ ~zone.dialog /\ zone.focused
  /\ zone' = [zone EXCEPT !.focused = FALSE, !.did = "none"]
  /\ last' = "Blur"
  /\ zoneFrame

\* 66-71, with the focus on the DropZone
handleKeyDown(key) ==
  /\ ~zone.dialog /\ zone.focused
  /\ zone' = IF key = "Enter" \/ key = " "
             THEN triggerFileBrowser
             ELSE [zone EXCEPT !.did = "none"]
  /\ last' = "handleKeyDown"
  /\ zoneFrame

\* 73-78; the click gives the DropZone the focus, whatever its tabIndex
handleClick ==
  /\ ~zone.dialog
  /\ zone' = IF ~zone.disabled
             THEN [triggerFileBrowser EXCEPT !.focused = TRUE]
             ELSE [zone EXCEPT !.focused = TRUE, !.did = "none"]
  /\ last' = "handleClick"
  /\ zoneFrame

\* the file browser closes with n files chosen: onchange (85-90) when
\* there is one, nothing when the user cancels
BrowserCloses(n) ==
  /\ zone.dialog
  /\ zone' = [zone EXCEPT !.dialog = FALSE,
                          !.did = IF n > 0 THEN "onFilesDrop" ELSE "none"]
  /\ last' = "BrowserCloses"
  /\ zoneFrame

NextZone ==
  \/ \E b \in BOOLEAN : SetDisabled(b)
  \/ \E valid \in BOOLEAN : handleDragEnter(valid)
  \/ handleDragLeave
  \/ \E n \in 0..1 : handleDrop(n)
  \/ FocusByTab
  \/ Blur
  \/ \E key \in Keys : handleKeyDown(key)
  \/ handleClick
  \/ \E n \in 0..1 : BrowserCloses(n)

SpecZone == Init /\ [][NextZone]_vars

(***************************************************************************)
(* Properties of the DropZone.                                             *)
(***************************************************************************)
\* C37: dragCounter is never negative, and the dragleave that matches the
\* last unmatched dragenter leaves isDragOver false, whatever dragenter,
\* dragleave and drop events and changes of disabled came before.
C37_DragCounter ==
  /\ zone.dragCounter >= 0
  /\ (zone.did = "dragleave" /\ zone.entered = 0) => ~zone.isDragOver

\* C38: while disabled is true no handler of the DropZone opens the file
\* browser or calls onFilesDrop.
C38_DisabledIsInert ==
  zone.disabled => zone.did \notin {"browser", "onFilesDrop"}

====
